---- MODULE Spec2Model ----
(***************************************************************************)
(* A model of todiff: the similarity oracle (is_task_admissible,           *)
(* cmp_tasks_3way), the stable matching engine (stable_marriage), the      *)
(* semantic delta classifier (changes_between) and the changeset builder   *)
(* (compute_changeset).                                                    *)
(***************************************************************************)
EXTENDS Integers, Sequences, FiniteSets, TLC

VARIABLES sm, cs, cb, ad, mg, rd

vars == <<sm, cs, cb, ad, mg, rd>>

(***************************************************************************)
(* Bounds of the model.                                                    *)
(***************************************************************************)
\* longest list of proposers given to stable_marriage
MaxMen == 3
\* longest list of targets given to stable_marriage
MaxWomen == 2
\* longest from/to list given to compute_changeset
MaxTasks == 2

(***************************************************************************)
(* Option<T>: None is the empty sequence, Some(x) the one-element sequence. *)
(***************************************************************************)
None == <<>>

Some(x) == <<x>>

IsSome(o) == Len(o) = 1

Unwrap(o) == o[1]

Range(q) == {q[i] : i \in 1..Len(q)}

Min2(a, b) == IF a <= b THEN a ELSE b

\* the sequence s without its element at position i (Vec::remove)
RemoveAt(s, i) == SubSeq(s, 1, i - 1) \o SubSeq(s, i + 1, Len(s))

\* the first position of s whose element satisfies "= x", or 0 (Iterator::position)
Position(s, x) ==
    IF \E i \in 1..Len(s) : s[i] = x
    THEN CHOOSE i \in 1..Len(s) : s[i] = x /\ \A j \in 1..(i - 1) : s[j] # x
    ELSE 0

\* all sequences over S of length 0..n
SeqsUpTo(S, n) == UNION {[1..k -> S] : k \in 0..n}

(***************************************************************************)
(* Tasks.  A subject is a sequence of characters; a date is [y, m, d];     *)
(* priority 26 is "no priority"; tags is the task's key/value map, kept as *)
(* a sequence of <<key, value>> pairs sorted by key.                       *)
(***************************************************************************)
NoPriority == 26

MkTask(subject, finished) ==
    [subject |-> subject, priority |-> NoPriority, create_date |-> None,
     finished |-> finished, finish_date |-> None, due_date |-> None,
     threshold_date |-> None, tags |-> <<>>]

\* tags.get(key)
TagGet(tags, key) ==
    IF \E i \in 1..Len(tags) : tags[i][1] = key
    THEN Some(tags[CHOOSE i \in 1..Len(tags) : tags[i][1] = key][2])
    ELSE None

(***************************************************************************)
(* strsim::levenshtein, by the usual recurrence on the two strings.        *)
(***************************************************************************)
RECURSIVE LevRec(_, _)
LevRec(a, b) ==
    IF Len(a) = 0 THEN Len(b)
    ELSE IF Len(b) = 0 THEN Len(a)
    ELSE LET cost == IF a[Len(a)] = b[Len(b)] THEN 0 ELSE 1
             ra == SubSeq(a, 1, Len(a) - 1)
             rb == SubSeq(b, 1, Len(b) - 1)
         IN  Min2(Min2(LevRec(ra, b) + 1, LevRec(a, rb) + 1), LevRec(ra, rb) + cost)

Str_aaa == <<"a", "a", "a">>

Str_aab == <<"a", "a", "b">>

Str_abb == <<"a", "b", "b">>

Str_ab == <<"a", "b">>

\* the subjects of the task pools
Subjects == {Str_aaa, Str_aab, Str_abb, Str_ab}

\* the distances between the subjects of the pools, computed once
LevTable == [a \in Subjects |-> [b \in Subjects |-> LevRec(a, b)]]

levenshtein(a, b) ==
    IF a \in Subjects /\ b \in Subjects THEN LevTable[a][b] ELSE LevRec(a, b)

(***************************************************************************)
(* The similarity oracle.                                                  *)
(***************************************************************************)
\* is_task_admissible with <= in place of <
is_task_admissible_inclusive(from, other, allowed_divergence) ==
    LET distance == levenshtein(other.subject, from.subject)
    IN  (distance * 100) \div Len(other.subject) <= allowed_divergence

\* is_task_admissible with the operands of the comparison swapped
is_task_admissible_swapped(from, other, allowed_divergence) ==
    LET distance == levenshtein(other.subject, from.subject)
    IN  allowed_divergence < (distance * 100) \div Len(other.subject)

\* is_task_admissible: truncating division, strict comparison.  The division
\* aborts on an empty other.subject: try_is_task_admissible is the call on any
\* task, this operator its value when other.subject is not empty.
is_task_admissible(from, other, allowed_divergence) ==
    LET distance == levenshtein(other.subject, from.subject)
    IN  (distance * 100) \div Len(other.subject) < allowed_divergence

\* usize::cmp
CmpInt(a, b) == IF a < b THEN "Less" ELSE IF a > b THEN "Greater" ELSE "Equal"

\* Ordering::then
OrdThen(o1, o2) == IF o1 = "Equal" THEN o2 ELSE o1

\* Ordering::reverse
OrdReverse(o) == IF o = "Less" THEN "Greater" ELSE IF o = "Greater" THEN "Less" ELSE "Equal"

cmp_tasks_3way(from, left, right) ==
    LET left_lev == levenshtein(left.subject, from.subject)
        right_lev == levenshtein(right.subject, from.subject)
    IN  IF left_lev # right_lev THEN CmpInt(left_lev, right_lev) ELSE "Equal"

(***************************************************************************)
(* The two Matcher implementations.  A matching state s carries            *)
(*   kind = "task":  items are tasks, compared through the oracle with     *)
(*                   s.div; a perfect match is structural equality;        *)
(*   kind = "index": IndexMatcher, items are positions and s.mlists /      *)
(*                   s.wlists the preference rankings, most preferred      *)
(*                   first;                                                *)
(* s.perfect is the relation is_perfect_match decides in a Matcher that    *)
(* overrides it (IndexMatcher keeps the default: the empty relation).      *)
(* side is "men" for men_matcher and "women" for women_matcher.            *)
(***************************************************************************)
MatcherLists(s, side) == IF side = "men" THEN s.mlists ELSE s.wlists

\* Matcher::is_admissible
M_is_admissible(s, side, x, y) ==
    IF s.kind = "task"
    THEN is_task_admissible(x, y, s.div)
    ELSE Position(MatcherLists(s, side)[x], y) # 0

\* Option<usize>::cmp of two positions (0 is None, and None < Some(_))
M_cmp_3way(s, side, from, left, right) ==
    IF s.kind = "task"
    THEN cmp_tasks_3way(from, left, right)
    ELSE CmpInt(Position(MatcherLists(s, side)[from], left),
                Position(MatcherLists(s, side)[from], right))

\* Matcher::is_perfect_match: structural equality of tasks; otherwise what the
\* implementation decides, nothing by default
M_is_perfect_match(s, x, y) == IF s.kind = "task" THEN x = y ELSE <<x, y>> \in s.perfect

(***************************************************************************)
(* stable_marriage.  Men and women are named by their position in the      *)
(* input lists; wmatch[w] is the position of woman w's current_match (0:   *)
(* none), prefs[m] the remaining preference list of man m, most preferred  *)
(* last.                                                                   *)
(***************************************************************************)
\* prefers_to_current with the comparison the wrong way round: a woman gives
\* up her match for a man farther from her
prefers_to_current_swapped(s, w, m) ==
    IF s.wperfect[w] \/ ~M_is_admissible(s, "women", s.women[w], s.men[m])
    THEN FALSE
    ELSE IF s.wmatch[w] # 0
         THEN M_cmp_3way(s, "women", s.women[w], s.men[s.wmatch[w]], s.men[m]) = "Less"
         ELSE TRUE

\* prefers_to_current without the test of current_is_perfect
prefers_to_current_unlocked(s, w, m) ==
    IF ~M_is_admissible(s, "women", s.women[w], s.men[m])
    THEN FALSE
    ELSE IF s.wmatch[w] # 0
         THEN M_cmp_3way(s, "women", s.women[w], s.men[s.wmatch[w]], s.men[m]) = "Greater"
         ELSE TRUE

\* Woman::prefers_to_current, asked of woman w about man m
prefers_to_current(s, w, m) ==
    IF s.wperfect[w] \/ ~M_is_admissible(s, "women", s.women[w], s.men[m])
    THEN FALSE
    ELSE IF s.wmatch[w] # 0
         THEN M_cmp_3way(s, "women", s.women[w], s.men[s.wmatch[w]], s.men[m]) = "Greater"
         ELSE TRUE

\* PrefCmp breaking ties by the highest position
PrefCmp_highestFirst(s, m, i, j) ==
    OrdReverse(OrdThen(M_cmp_3way(s, "men", s.men[m], s.women[i], s.women[j]),
                       CmpInt(j, i)))

\* the comparator of sort_unstable_by in compute_preference_list
PrefCmp(s, m, i, j) ==
    OrdReverse(OrdThen(M_cmp_3way(s, "men", s.men[m], s.women[i], s.women[j]),
                       CmpInt(i, j)))

\* the sorted slice: PrefCmp is a strict total order on distinct positions, so
\* the result of the sort is determined; insertion into a sorted sequence
RECURSIVE PrefInsert(_, _, _, _)
PrefInsert(s, m, sorted, i) ==
    IF Len(sorted) = 0 THEN <<i>>
    ELSE IF PrefCmp(s, m, i, Head(sorted)) = "Less" THEN <<i>> \o sorted
    ELSE <<Head(sorted)>> \o PrefInsert(s, m, Tail(sorted), i)

RECURSIVE PrefSort(_, _, _)
PrefSort(s, m, idxs) ==
    IF Len(idxs) = 0 THEN <<>>
    ELSE PrefInsert(s, m, PrefSort(s, m, SubSeq(idxs, 1, Len(idxs) - 1)), idxs[Len(idxs)])

\* the filters of compute_preference_list over the women 1..n, in input order
RECURSIVE Admissibles(_, _, _)
Admissibles(s, m, n) ==
    IF n = 0 THEN <<>>
    ELSE Admissibles(s, m, n - 1) \o
         (IF /\ prefers_to_current(s, n, m)
             /\ M_is_admissible(s, "men", s.men[m], s.women[n])
          THEN <<n>> ELSE <<>>)

\* reversed sequence (Iterator::rev)
Reverse(q) == [i \in 1..Len(q) |-> q[Len(q) + 1 - i]]

\* compute_preference_list with the ranking of IndexMatcher as it stands, the
\* least preferred woman proposed to first
compute_preference_list_worstFirst(s, m) ==
    IF s.kind = "task"
    THEN PrefSort(s, m, Admissibles(s, m, Len(s.women)))
    ELSE s.mlists[s.men[m]]

\* Matcher::compute_preference_list for man m (IndexMatcher overrides it)
compute_preference_list(s, m) ==
    IF s.kind = "task"
    THEN PrefSort(s, m, Admissibles(s, m, Len(s.women)))
    ELSE Reverse(s.mlists[s.men[m]])

\* Matcher::find_perfect_match: the first unengaged woman that is a perfect
\* match of man m, or 0
find_perfect_match(s, m) ==
    LET ok(w) == s.wmatch[w] = 0 /\ M_is_perfect_match(s, s.men[m], s.women[w])
    IN  IF \E w \in 1..Len(s.women) : ok(w)
        THEN CHOOSE w \in 1..Len(s.women) : ok(w) /\ \A v \in 1..(w - 1) : ~ok(v)
        ELSE 0

\* the state of stable_marriage on entry
SMStart(kind, men, women, div, mlists, wlists) ==
    [kind |-> kind, men |-> men, women |-> women, div |-> div,
     mlists |-> mlists, wlists |-> wlists, perfect |-> {},
     wmatch |-> [w \in 1..Len(women) |-> 0],
     wperfect |-> [w \in 1..Len(women) |-> FALSE],
     prefs |-> [m \in 1..Len(men) |-> <<>>],
     next |-> 1, held |-> 0, unmatched |-> <<>>,
     nprop |-> 0, pc |-> "outer"]

\* one pass of `'outer_loop: for item in men`: the perfect-match shortcut, or
\* the preference list of the new man, who is then held by the inner loop
SMTake(s) ==
    LET m == s.next
        w == find_perfect_match(s, m)
    IN  IF w # 0
        THEN [s EXCEPT !.wperfect[w] = TRUE, !.wmatch[w] = m, !.next = m + 1]
        ELSE [s EXCEPT !.prefs[m] = compute_preference_list(s, m),
                       !.held = m, !.next = m + 1, !.pc = "inner"]

\* SMInner forgetting the man a woman gives up: he is neither held nor listed
SMInner_dropRejected(s) ==
    LET m == s.held
        l == s.prefs[m]
    IN  IF Len(l) = 0
        THEN [s EXCEPT !.unmatched = Append(@, m), !.held = 0, !.pc = "outer"]
        ELSE LET i == l[Len(l)]
                 s1 == [s EXCEPT !.prefs[m] = SubSeq(l, 1, Len(l) - 1),
                                 !.nprop = @ + 1]
             IN  IF prefers_to_current(s1, i, m)
                 THEN [s1 EXCEPT !.wmatch[i] = m, !.held = 0, !.pc = "outer"]
                 ELSE s1

\* SMInner reading the last entry of the list without removing it when the
\* woman refuses
SMInner_keepEntry(s) ==
    LET m == s.held
        l == s.prefs[m]
    IN  IF Len(l) = 0
        THEN [s EXCEPT !.unmatched = Append(@, m), !.held = 0, !.pc = "outer"]
        ELSE LET i == l[Len(l)]
                 s1 == [s EXCEPT !.prefs[m] = SubSeq(l, 1, Len(l) - 1),
                                 !.nprop = @ + 1]
             IN  IF prefers_to_current(s1, i, m)
                 THEN LET rejected_man == s1.wmatch[i]
                          s2 == [s1 EXCEPT !.wmatch[i] = m]
                      IN  IF rejected_man # 0
                          THEN [s2 EXCEPT !.held = rejected_man]
                          ELSE [s2 EXCEPT !.held = 0, !.pc = "outer"]
                 ELSE [s EXCEPT !.nprop = @ + 1]

\* one pass of `while let Some(i) = man.prefs.pop()`, or the push to
\* no_longer_engageables when the list is empty
SMInner(s) ==
    LET m == s.held
        l == s.prefs[m]
    IN  IF Len(l) = 0
        THEN [s EXCEPT !.unmatched = Append(@, m), !.held = 0, !.pc = "outer"]
        ELSE LET i == l[Len(l)]
                 s1 == [s EXCEPT !.prefs[m] = SubSeq(l, 1, Len(l) - 1),
                                 !.nprop = @ + 1]
             IN  IF prefers_to_current(s1, i, m)
                 THEN LET rejected_man == s1.wmatch[i]
                          s2 == [s1 EXCEPT !.wmatch[i] = m]
                      IN  IF rejected_man # 0
                          THEN [s2 EXCEPT !.held = rejected_man]
                          ELSE [s2 EXCEPT !.held = 0, !.pc = "outer"]
                 ELSE s1

\* the returned pair: the women in input order, each with her match, and the
\* men of no_longer_engageables
SMOutput(s) ==
    [women |-> [w \in 1..Len(s.women) |->
                   <<s.women[w],
                     IF s.wmatch[w] # 0 THEN Some(s.men[s.wmatch[w]]) ELSE None>>],
     unmatched |-> [k \in 1..Len(s.unmatched) |-> s.men[s.unmatched[k]]]]

SMStep(s) ==
    IF s.pc = "inner" THEN SMInner(s)
    ELSE IF s.next <= Len(s.men) THEN SMTake(s)
    ELSE [s EXCEPT !.pc = "done"]

RECURSIVE SMRun(_)
SMRun(s) == IF s.pc = "done" THEN s ELSE SMRun(SMStep(s))

\* stable_marriage as a function of its arguments
stable_marriage(kind, men, women, div, mlists, wlists) ==
    SMOutput(SMRun(SMStart(kind, men, women, div, mlists, wlists)))

(***************************************************************************)
(* Inputs of the matching specification.                                   *)
(***************************************************************************)
\* allowed_divergence = 100 - similarity; 25 is the default of the command line
Divs == {0, 25, 34, 51, 67, 100}

\* the divergences that tell the pool's pairs apart
SMDivs == {34, 51, 67}

SMPool ==
    {MkTask(Str_aaa, FALSE), MkTask(Str_aab, FALSE), MkTask(Str_abb, FALSE),
     MkTask(Str_ab, FALSE), MkTask(Str_aab, TRUE)}

Idle == [pc |-> "idle"]

SMInit ==
    /\ \E men \in SeqsUpTo(SMPool, MaxMen), women \in SeqsUpTo(SMPool, MaxWomen),
          div \in SMDivs :
          sm = SMStart("task", men, women, div, <<>>, <<>>)
    /\ cs = Idle
    /\ cb = Idle
    /\ ad = Idle
    /\ mg = Idle
    /\ rd = Idle

\* a man finds an unengaged perfect match and is bound to her
SM_TakePerfect ==
    /\ sm.pc = "outer" /\ sm.next <= Len(sm.men)
    /\ find_perfect_match(sm, sm.next) # 0
    /\ sm' = SMStep(sm)
    /\ UNCHANGED <<cs, cb, ad, mg, rd>>

\* a man without perfect match gets his preference list
SM_TakeCompute ==
    /\ sm.pc = "outer" /\ sm.next <= Len(sm.men)
    /\ find_perfect_match(sm, sm.next) = 0
    /\ sm' = SMStep(sm)
    /\ UNCHANGED <<cs, cb, ad, mg, rd>>

\* the held man proposes to a woman without match, who accepts
SM_ProposeFree ==
    /\ sm.pc = "inner" /\ Len(sm.prefs[sm.held]) > 0
    /\ LET i == sm.prefs[sm.held][Len(sm.prefs[sm.held])]
       IN  prefers_to_current(sm, i, sm.held) /\ sm.wmatch[i] = 0
    /\ sm' = SMStep(sm)
    /\ UNCHANGED <<cs, cb, ad, mg, rd>>

\* the held man proposes to an engaged woman who prefers him: her former match
\* becomes the held man
SM_ProposeReplace ==
    /\ sm.pc = "inner" /\ Len(sm.prefs[sm.held]) > 0
    /\ LET i == sm.prefs[sm.held][Len(sm.prefs[sm.held])]
       IN  prefers_to_current(sm, i, sm.held) /\ sm.wmatch[i] # 0
    /\ sm' = SMStep(sm)
    /\ UNCHANGED <<cs, cb, ad, mg, rd>>

\* the held man proposes to a woman who does not prefer him
SM_ProposeReject ==
    /\ sm.pc = "inner" /\ Len(sm.prefs[sm.held]) > 0
    /\ LET i == sm.prefs[sm.held][Len(sm.prefs[sm.held])]
       IN  ~prefers_to_current(sm, i, sm.held)
    /\ sm' = SMStep(sm)
    /\ UNCHANGED <<cs, cb, ad, mg, rd>>

\* the held man has no woman left to propose to
SM_Exhaust ==
    /\ sm.pc = "inner" /\ Len(sm.prefs[sm.held]) = 0
    /\ sm' = SMStep(sm)
    /\ UNCHANGED <<cs, cb, ad, mg, rd>>

\* the list of men is consumed: stable_marriage returns
SM_Return ==
    /\ sm.pc = "outer" /\ sm.next > Len(sm.men)
    /\ sm' = SMStep(sm)
    /\ UNCHANGED <<cs, cb, ad, mg, rd>>

SMNext ==
    \/ SM_TakePerfect
    \/ SM_TakeCompute
    \/ SM_ProposeFree
    \/ SM_ProposeReplace
    \/ SM_ProposeReject
    \/ SM_Exhaust
    \/ SM_Return

SpecSM == SMInit /\ [][SMNext]_vars

\* the sequential loop always takes its next step
SpecSMFair == SpecSM /\ WF_vars(SMNext)

(***************************************************************************)
(* Properties of stable_marriage.                                          *)
(***************************************************************************)
\* the woman man m is matched to at the end, or 0
PartnerOf(s, m) ==
    IF \E w \in 1..Len(s.women) : s.wmatch[w] = m
    THEN CHOOSE w \in 1..Len(s.women) : s.wmatch[w] = m
    ELSE 0

MutuallyAdmissible(s, m, w) ==
    /\ M_is_admissible(s, "men", s.men[m], s.women[w])
    /\ M_is_admissible(s, "women", s.women[w], s.men[m])

\* m and w are not matched to each other and each strictly prefers the other
\* to the partner it has (or has none)
BlockingPair(s, m, w) ==
    /\ s.wmatch[w] # m
    /\ MutuallyAdmissible(s, m, w)
    /\ \/ PartnerOf(s, m) = 0
       \/ M_cmp_3way(s, "men", s.men[m], s.women[w], s.women[PartnerOf(s, m)]) = "Less"
    /\ \/ s.wmatch[w] = 0
       \/ M_cmp_3way(s, "women", s.women[w], s.men[s.wmatch[w]], s.men[m]) = "Greater"

\* C1: the matching returned by stable_marriage is stable: no proposer and
\* target, not matched to each other and mutually admissible, strictly prefer
\* each other to the partners they have (or lack)
C1_Stable ==
    sm.pc = "done" =>
        \A m \in 1..Len(sm.men), w \in 1..Len(sm.women) : ~BlockingPair(sm, m, w)

\* a finished run in which a woman turned a man down for a closer one, and
\* the man stayed unmatched
C1_Witness ==
    /\ sm.pc = "done"
    /\ \E w \in 1..Len(sm.women), m \in 1..Len(sm.men) :
          /\ sm.wmatch[w] # 0 /\ sm.wmatch[w] # m /\ ~sm.wperfect[w]
          /\ PartnerOf(sm, m) = 0
          /\ MutuallyAdmissible(sm, m, w)
          /\ M_cmp_3way(sm, "women", sm.women[w], sm.men[sm.wmatch[w]], sm.men[m]) = "Less"

\* number of positions of sequence q that hold x
Count(q, x) == Cardinality({i \in 1..Len(q) : q[i] = x})

\* C2: the result is a partial one-to-one assignment that accounts for
\* everybody: the women come back once each in input order with at most one
\* man, no man is attached to two women, and every man is either attached to
\* exactly one woman or listed once as unmatched, never both, never missing
C2_Assignment ==
    sm.pc = "done" =>
        LET out == SMOutput(sm)
            attached == [w \in 1..Len(out.women) |-> out.women[w][2]]
        IN  /\ Len(out.women) = Len(sm.women)
            /\ \A w \in 1..Len(sm.women) :
                  out.women[w][1] = sm.women[w] /\ Len(out.women[w][2]) <= 1
            /\ \A m \in 1..Len(sm.men) :
                  Cardinality({w \in 1..Len(sm.women) : sm.wmatch[w] = m})
                      + Count(sm.unmatched, m) = 1
            /\ \A w \in 1..Len(sm.women) : sm.wmatch[w] \in 0..Len(sm.men)
            /\ \A k \in 1..Len(sm.unmatched) : sm.unmatched[k] \in 1..Len(sm.men)
            /\ \A m \in 1..Len(sm.men) :
                  Count(sm.men, sm.men[m])
                      = Count(attached, Some(sm.men[m])) + Count(out.unmatched, sm.men[m])

\* a finished run with a matched man, an unmatched man and an unmatched woman
C2_Witness ==
    /\ sm.pc = "done"
    /\ Len(sm.unmatched) > 0
    /\ \E w \in 1..Len(sm.women) : sm.wmatch[w] # 0
    /\ \E w \in 1..Len(sm.women) : sm.wmatch[w] = 0

\* entries left in the preference lists of the men taken so far, plus the
\* most the men not yet taken can get
ListBudget(s) ==
    LET RECURSIVE Sum(_)
        Sum(m) == IF m = 0 THEN 0 ELSE Sum(m - 1) + Len(s.prefs[m])
    IN  Sum(Len(s.men)) + (Len(s.men) + 1 - s.next) * Len(s.women)

\* what is left to do: list entries, men to take, the inner loop to leave and
\* the return
Variant(s) ==
    ListBudget(s) + 2 * (Len(s.men) + 1 - s.next)
        + (IF s.pc = "inner" THEN 1 ELSE 0) + (IF s.pc = "done" THEN 0 ELSE 1)

\* C3: the proposal loop terminates: every proposal removes one entry from
\* the list of the man held, so proposals made plus entries left never exceed
\* n*m; every step of the run takes from what is left to do, and before the
\* return there is always a next step, which changes the state
C3_Terminates ==
    /\ [](sm.nprop + ListBudget(sm) <= Len(sm.men) * Len(sm.women))
    /\ [][/\ Variant(sm') < Variant(sm)
          /\ Variant(sm') >= 0
          /\ (sm.pc = "inner" /\ Len(sm.prefs[sm.held]) > 0 =>
                Len(sm'.prefs[sm.held]) = Len(sm.prefs[sm.held]) - 1)]_vars
    /\ [](sm.pc # "done" => sm.pc \in {"outer", "inner"} /\ SMStep(sm) # sm)

\* a finished run with several proposals, one of them turned down
C3_Witness ==
    /\ sm.pc = "done"
    /\ sm.nprop >= 3
    /\ Len(sm.unmatched) > 0

(***************************************************************************)
(* Calendar dates (chrono::NaiveDate) as [y, m, d].                        *)
(***************************************************************************)
MkDate(y, m, d) == [y |-> y, m |-> m, d |-> d]

IsLeap(y) == (y % 4 = 0 /\ y % 100 # 0) \/ y % 400 = 0

DaysInMonth(y, m) ==
    IF m = 2 THEN (IF IsLeap(y) THEN 29 ELSE 28)
    ELSE IF m \in {4, 6, 9, 11} THEN 30 ELSE 31

\* days since 1970-01-01
DayNumber(date) ==
    LET y == IF date.m <= 2 THEN date.y - 1 ELSE date.y
        era == y \div 400
        yoe == y - era * 400
        mp == IF date.m > 2 THEN date.m - 3 ELSE date.m + 9
        doy == (153 * mp + 2) \div 5 + date.d - 1
        doe == yoe * 365 + yoe \div 4 - yoe \div 100 + doy
    IN  era * 146097 + doe - 719468

\* the date of a day number
DateOfDay(z0) ==
    LET z == z0 + 719468
        era == z \div 146097
        doe == z - era * 146097
        yoe == (doe - doe \div 1460 + doe \div 36524 - doe \div 146096) \div 365
        doy == doe - (365 * yoe + yoe \div 4 - yoe \div 100)
        mp == (5 * doy + 2) \div 153
        d == doy - (153 * mp + 2) \div 5 + 1
        m == IF mp < 10 THEN mp + 3 ELSE mp - 9
        y == yoe + era * 400 + (IF m <= 2 THEN 1 ELSE 0)
    IN  MkDate(y, m, d)

\* to.signed_duration_since(from), in days
signed_duration_since(to, from) == DayNumber(to) - DayNumber(from)

\* date + Duration::days(n)
AddDays(date, n) == DateOfDay(DayNumber(date) + n)

\* Datelike::with_month0: None when the day does not exist in that month
with_month0(date, m0) ==
    IF date.d <= DaysInMonth(date.y, m0 + 1) THEN Some(MkDate(date.y, m0 + 1, date.d))
    ELSE None

\* Datelike::with_year: None when the day does not exist in that year
with_year(date, y) ==
    IF date.d <= DaysInMonth(y, date.m) THEN Some(MkDate(y, date.m, date.d))
    ELSE None

(***************************************************************************)
(* The semantic delta classifier.  A result that can abort is              *)
(* [panic |-> BOOLEAN, val |-> ...].                                       *)
(***************************************************************************)
\* postpone_days looking at the due dates only
postpone_days_ignoreThreshold(from, to) ==
    IF IsSome(from.due_date) /\ IsSome(to.due_date)
    THEN Some(signed_duration_since(Unwrap(to.due_date), Unwrap(from.due_date)))
    ELSE None

postpone_days(from, to) ==
    IF IsSome(from.due_date) /\ IsSome(to.due_date)
    THEN LET from_due == Unwrap(from.due_date)
             to_due == Unwrap(to.due_date)
         IN  IF from.threshold_date = None /\ to.threshold_date = None
             THEN Some(signed_duration_since(to_due, from_due))
             ELSE IF /\ IsSome(from.threshold_date) /\ IsSome(to.threshold_date)
                     /\ signed_duration_since(to_due, from_due)
                          = signed_duration_since(Unwrap(to.threshold_date),
                                                  Unwrap(from.threshold_date))
                  THEN Some(signed_duration_since(to_due, from_due))
                  ELSE None
    ELSE None

Digits == <<"0", "1", "2", "3", "4", "5", "6", "7", "8", "9">>

DigitValue(c) == Position(Digits, c) - 1

\* the value of a string of digits
RECURSIVE DigitsValue(_)
DigitsValue(q) ==
    IF Len(q) = 0 THEN 0
    ELSE 10 * DigitsValue(SubSeq(q, 1, Len(q) - 1)) + DigitValue(q[Len(q)])

U16Max == 65535

\* str::parse::<u16>: digits after an optional "+", None on anything else or
\* on a value over u16::MAX
parse_u16(q) ==
    LET body == IF Len(q) > 0 /\ q[1] = "+" THEN Tail(q) ELSE q
    IN  IF Len(body) > 0 /\ (\A i \in 1..Len(body) : Position(Digits, body[i]) # 0)
           /\ DigitsValue(body) <= U16Max
        THEN Some(DigitsValue(body))
        ELSE None

OkVal(v) == [panic |-> FALSE, val |-> v]

Panic == [panic |-> TRUE, val |-> None]

\* add_recspec_to_date: Option<date>, or the abort of an expect()
add_recspec_to_date(date, recspec) ==
    LET n == parse_u16(SubSeq(recspec, 1, Len(recspec) - 1))
        last == IF Len(recspec) > 0 THEN recspec[Len(recspec)] ELSE ""
    IN  IF ~IsSome(n) THEN OkVal(None)
        ELSE IF last = "d" THEN OkVal(Some(AddDays(date, Unwrap(n))))
        ELSE IF last = "w" THEN OkVal(Some(AddDays(date, 7 * Unwrap(n))))
        ELSE IF last = "m"
             THEN LET month0 == date.m - 1
                      md == with_month0(date, (month0 + Unwrap(n)) % 12)
                  IN  IF ~IsSome(md) THEN Panic
                      ELSE LET yd == with_year(Unwrap(md),
                                               date.y + (month0 + Unwrap(n)) \div 12)
                           IN  IF IsSome(yd) THEN OkVal(yd) ELSE Panic
        ELSE IF last = "y"
             THEN LET yd == with_year(date, date.y + Unwrap(n))
                  IN  IF IsSome(yd) THEN OkVal(yd) ELSE Panic
        ELSE OkVal(None)

\* remove_common leaving both lists as they are
remove_common_none(a, b) == <<a, b>>

\* remove_common dropping every copy of a task present on both sides
remove_common_all(a, b) ==
    <<SelectSeq(a, LAMBDA x : x \notin Range(b)),
      SelectSeq(b, LAMBDA x : x \notin Range(a))>>

\* remove_common: every element of a that has an equal in b leaves both lists,
\* one copy each; k walks the positions of the original a
RECURSIVE RemoveCommonFrom(_, _, _, _)
RemoveCommonFrom(orig, k, a, b) ==
    IF k > Len(orig) THEN <<a, b>>
    ELSE LET b_pos == Position(b, orig[k])
         IN  IF b_pos # 0
             THEN RemoveCommonFrom(orig, k + 1, RemoveAt(a, Position(a, orig[k])),
                                   RemoveAt(b, b_pos))
             ELSE RemoveCommonFrom(orig, k + 1, a, b)

\* remove_common taking the common elements out of a only
remove_common_leftOnly(a, b) == <<RemoveCommonFrom(a, 1, a, b)[1], b>>

remove_common(a, b) == RemoveCommonFrom(a, 1, a, b)

\* Some(b'A' + priority) for a priority below 26
PrioLetter(p) == IF p < NoPriority THEN Some(65 + p) ELSE None

\* the first block of changes_between: the Recurred* edit if one is detected
\* (None otherwise), or the abort of add_recspec_to_date
RecurredEdit(from, to, is_first) ==
    LET rec == TagGet(from.tags, "rec")
    IN  IF /\ ~is_first
           /\ rec = TagGet(to.tags, "rec")
           /\ IsSome(rec)
           /\ IsSome(postpone_days(from, to))
           /\ IsSome(from.due_date)
           /\ IsSome(to.due_date)
        THEN LET r == Unwrap(rec)
                 to_due == Unwrap(to.due_date)
             IN  IF Len(r) > 0 /\ r[1] = "+"
                 THEN LET next == add_recspec_to_date(Unwrap(from.due_date), Tail(r))
                      IN  IF next.panic THEN Panic
                          ELSE IF next.val = Some(to_due)
                               THEN OkVal(Some(<<"RecurredStrict">>))
                               ELSE OkVal(None)
                 ELSE IF IsSome(to.create_date)
                      THEN LET next == add_recspec_to_date(Unwrap(to.create_date), r)
                           IN  IF next.panic THEN Panic
                               ELSE IF next.val = Some(to_due)
                                    THEN OkVal(Some(<<"RecurredFrom", Unwrap(to.create_date)>>))
                                    ELSE OkVal(None)
                      ELSE OkVal(None)
        ELSE OkVal(None)

\* done_finished_at: the completion shortcut applies
FinishedAtApplies(from, to) ==
    /\ from.finished = FALSE /\ to.finished = TRUE
    /\ ~IsSome(from.finish_date) /\ IsSome(to.finish_date)

\* done_postponed_strict: the postponement shortcut applies
PostponedApplies(from, to, done_recurred) ==
    ~done_recurred /\ from.due_date # to.due_date /\ IsSome(postpone_days(from, to))

\* ShortcutEdits pushing Copied for every task that is not the first of its
\* chain, a recurrence detected or not
ShortcutEdits_copiedAlways(from, to, is_first, done_recurred) ==
    (IF ~is_first THEN << <<"Copied">> >> ELSE <<>>)
    \o (IF FinishedAtApplies(from, to)
        THEN << <<"FinishedAt", Unwrap(to.finish_date)>> >> ELSE <<>>)
    \o (IF PostponedApplies(from, to, done_recurred)
        THEN << <<"PostponedStrictBy", Unwrap(postpone_days(from, to))>> >> ELSE <<>>)

\* the pushes of Copied, FinishedAt and PostponedStrictBy
ShortcutEdits(from, to, is_first, done_recurred) ==
    (IF ~done_recurred /\ ~is_first THEN << <<"Copied">> >> ELSE <<>>)
    \o (IF FinishedAtApplies(from, to)
        THEN << <<"FinishedAt", Unwrap(to.finish_date)>> >> ELSE <<>>)
    \o (IF PostponedApplies(from, to, done_recurred)
        THEN << <<"PostponedStrictBy", Unwrap(postpone_days(from, to))>> >> ELSE <<>>)

\* DueDate pushed whatever the postponement shortcut did
DueEdits_always(from, to, done_recurred) ==
    (IF /\ ~done_recurred /\ ~PostponedApplies(from, to, done_recurred)
        /\ from.threshold_date # to.threshold_date
     THEN << <<"ThresholdDate", from.threshold_date, to.threshold_date>> >>
     ELSE <<>>)
    \o (IF ~done_recurred /\ from.due_date # to.due_date
        THEN << <<"DueDate", from.due_date, to.due_date>> >> ELSE <<>>)

\* the pushes of ThresholdDate and DueDate
DueEdits(from, to, done_recurred) ==
    (IF /\ ~done_recurred /\ ~PostponedApplies(from, to, done_recurred)
        /\ from.threshold_date # to.threshold_date
     THEN << <<"ThresholdDate", from.threshold_date, to.threshold_date>> >>
     ELSE <<>>)
    \o (IF /\ ~done_recurred /\ ~PostponedApplies(from, to, done_recurred)
           /\ from.due_date # to.due_date
        THEN << <<"DueDate", from.due_date, to.due_date>> >> ELSE <<>>)

\* Finished and FinishDate pushed whatever the completion shortcut did
CompletionEdits_always(from, to) ==
    (IF from.finished # to.finished
     THEN << <<"Finished", to.finished>> >> ELSE <<>>)
    \o (IF from.finish_date # to.finish_date
        THEN << <<"FinishDate", from.finish_date, to.finish_date>> >> ELSE <<>>)

\* the pushes of Finished and FinishDate
CompletionEdits(from, to) ==
    (IF ~FinishedAtApplies(from, to) /\ from.finished # to.finished
     THEN << <<"Finished", to.finished>> >> ELSE <<>>)
    \o (IF ~FinishedAtApplies(from, to) /\ from.finish_date # to.finish_date
        THEN << <<"FinishDate", from.finish_date, to.finish_date>> >> ELSE <<>>)

\* Priority pushed without comparing the two priorities
PriorityEdits_always(from, to) ==
    IF ~(FinishedAtApplies(from, to) /\ ~IsSome(PrioLetter(to.priority)))
    THEN << <<"Priority", PrioLetter(from.priority), PrioLetter(to.priority)>> >>
    ELSE <<>>

\* the push of Priority
PriorityEdits(from, to) ==
    IF /\ from.priority # to.priority
       /\ ~(FinishedAtApplies(from, to) /\ ~IsSome(PrioLetter(to.priority)))
    THEN << <<"Priority", PrioLetter(from.priority), PrioLetter(to.priority)>> >>
    ELSE <<>>

\* LastEdits without the push of Subject
LastEdits_noSubject(from, to, done_recurred) ==
    (IF ~done_recurred /\ from.create_date # to.create_date
     THEN << <<"CreateDate", from.create_date, to.create_date>> >> ELSE <<>>)
    \o (IF from.tags # to.tags
        THEN << <<"Tags", remove_common(from.tags, to.tags)[1],
                  remove_common(from.tags, to.tags)[2]>> >>
        ELSE <<>>)

\* the pushes of CreateDate, Tags and Subject
LastEdits(from, to, done_recurred) ==
    (IF ~done_recurred /\ from.create_date # to.create_date
     THEN << <<"CreateDate", from.create_date, to.create_date>> >> ELSE <<>>)
    \o (IF from.tags # to.tags
        THEN << <<"Tags", remove_common(from.tags, to.tags)[1],
                  remove_common(from.tags, to.tags)[2]>> >>
        ELSE <<>>)
    \o (IF from.subject # to.subject
        THEN << <<"Subject", from.subject, to.subject>> >> ELSE <<>>)

\* EditsAfter with the push of Priority ahead of the dates
EditsAfter_priorityFirst(from, to, is_first, done_recurred) ==
    ShortcutEdits(from, to, is_first, done_recurred)
    \o PriorityEdits(from, to)
    \o DueEdits(from, to, done_recurred)
    \o CompletionEdits(from, to)
    \o LastEdits(from, to, done_recurred)

\* the edits pushed by changes_between once the first block is through, in
\* the order of the pushes
EditsAfter(from, to, is_first, done_recurred) ==
    ShortcutEdits(from, to, is_first, done_recurred)
    \o DueEdits(from, to, done_recurred)
    \o CompletionEdits(from, to)
    \o PriorityEdits(from, to)
    \o LastEdits(from, to, done_recurred)

\* changes_between: the list of edits, or the abort of add_recspec_to_date
changes_between(from, to, is_first) ==
    LET rec == RecurredEdit(from, to, is_first)
    IN  IF rec.panic THEN Panic
        ELSE OkVal((IF IsSome(rec.val) THEN <<Unwrap(rec.val)>> ELSE <<>>)
                   \o EditsAfter(from, to, is_first, IsSome(rec.val)))

(***************************************************************************)
(* The changeset builder.                                                  *)
(***************************************************************************)
\* the comparator of sort_unstable_by in preferred_task_ids.  On the short
\* slices of this model the sort is an insertion sort, which leaves tasks that
\* compare Equal in input order (the expectations of the recurring_tasks test
\* rest on it)
TaskPrefLess(t, tasks, i, j) ==
    LET c == cmp_tasks_3way(t, tasks[i], tasks[j])
    IN  IF c # "Equal" THEN c = "Less" ELSE i < j

RECURSIVE TaskPrefInsert(_, _, _, _)
TaskPrefInsert(t, tasks, sorted, i) ==
    IF Len(sorted) = 0 THEN <<i>>
    ELSE IF TaskPrefLess(t, tasks, i, Head(sorted)) THEN <<i>> \o sorted
    ELSE <<Head(sorted)>> \o TaskPrefInsert(t, tasks, Tail(sorted), i)

\* preferred_task_ids over the first n tasks
RECURSIVE PreferredUpTo(_, _, _, _)
PreferredUpTo(t, tasks, allowed_divergence, n) ==
    IF n = 0 THEN <<>>
    ELSE LET before == PreferredUpTo(t, tasks, allowed_divergence, n - 1)
         IN  IF is_task_admissible(t, tasks[n], allowed_divergence)
             THEN TaskPrefInsert(t, tasks, before, n)
             ELSE before

\* preferred_task_ids: the positions of the tasks admissible for t, closest
\* first
preferred_task_ids(t, tasks, allowed_divergence) ==
    PreferredUpTo(t, tasks, allowed_divergence, Len(tasks))

\* stable_marriage called on two preference matrices: for every man the
\* position of the woman he is matched to, or 0
stable_marriage_from_preference_lists(men, women) ==
    LET men_indices == [i \in 1..Len(men) |-> i]
        women_indices == [i \in 1..Len(women) |-> i]
        matches_women == stable_marriage("index", men_indices, women_indices, 0,
                                         men, women).women
    IN  [j \in 1..Len(men) |->
            IF \E i \in 1..Len(women) : matches_women[i][2] = Some(j)
            THEN CHOOSE i \in 1..Len(women) : matches_women[i][2] = Some(j)
            ELSE 0]

\* the positions i of 1..n with Keep[i], ascending
RECURSIVE Kept(_, _)
Kept(keep, n) ==
    IF n = 0 THEN <<>> ELSE Kept(keep, n - 1) \o (IF keep[n] THEN <<n>> ELSE <<>>)

\* `matches` as first collected: one ChangedTask<Task> per matched from-task
FirstMatches(from, to, matching) ==
    LET idx == Kept([i \in 1..Len(from) |-> matching[i] # 0], Len(from))
    IN  [k \in 1..Len(idx) |->
            [orig |-> from[idx[k]],
             kind |-> IF IsSome(TagGet(from[idx[k]].tags, "rec"))
                      THEN "Recurred" ELSE "Changed",
             tasks |-> <<to[matching[idx[k]]]>>]]

\* BestMatch taking the first admissible Recurred entry, close or not
BestMatch_firstAdmissible(matches, x, allowed_divergence) ==
    LET cand(k) == /\ matches[k].kind = "Recurred"
                   /\ is_task_admissible(matches[k].orig, x, allowed_divergence)
    IN  IF \E k \in 1..Len(matches) : cand(k)
        THEN CHOOSE k \in 1..Len(matches) : cand(k) /\ \A l \in 1..(k - 1) : ~cand(l)
        ELSE 0

\* the position in matches of the Recurred entry a new task x is appended to:
\* the first of the closest admissible ones (Iterator::min_by), or 0
BestMatch(matches, x, allowed_divergence) ==
    LET cand(k) == /\ matches[k].kind = "Recurred"
                   /\ is_task_admissible(matches[k].orig, x, allowed_divergence)
        best(k) == /\ cand(k)
                   /\ \A l \in 1..Len(matches) : cand(l) =>
                         cmp_tasks_3way(x, matches[l].orig, matches[k].orig) # "Less"
    IN  IF \E k \in 1..Len(matches) : cand(k)
        THEN CHOOSE k \in 1..Len(matches) : best(k) /\ \A l \in 1..(k - 1) : ~best(l)
        ELSE 0

\* the detection of recurred tasks: the unmatched to-tasks rest[k..], each
\* appended to a Recurred entry of matches or kept as a new task
RECURSIVE FoldNew(_, _, _, _, _)
FoldNew(rest, k, matches, new_tasks, allowed_divergence) ==
    IF k > Len(rest) THEN [matches |-> matches, new_tasks |-> new_tasks]
    ELSE LET b == BestMatch(matches, rest[k], allowed_divergence)
         IN  IF b # 0
             THEN FoldNew(rest, k + 1,
                          [matches EXCEPT ![b].tasks = Append(@, rest[k])],
                          new_tasks, allowed_divergence)
             ELSE FoldNew(rest, k + 1, matches, Append(new_tasks, rest[k]),
                          allowed_divergence)

\* new_delta for one entry of matches, given the edit lists `recurred` of its
\* tasks: Changed for a single list, Recurred otherwise
NewDelta(x, recurred) ==
    [orig |-> x.orig,
     kind |-> IF x.kind = "Recurred" /\ Len(recurred) # 1 THEN "Recurred" ELSE "Changed",
     edits |-> [i \in 1..Len(recurred) |-> recurred[i].val],
     panic |-> \E i \in 1..Len(recurred) : recurred[i].panic]

\* the delta of one entry of matches: changes_between from the original to
\* every task of the entry
DeltaOf(x) ==
    NewDelta(x, [i \in 1..Len(x.tasks) |-> changes_between(x.orig, x.tasks[i], i = 1)])

\* one preferred_task_ids list per task of a, over the tasks of b
PreferencesMatrix(a, b, allowed_divergence) ==
    [i \in 1..Len(a) |-> preferred_task_ids(a[i], b, allowed_divergence)]

\* deleted_tasks: the from-tasks the matching leaves alone, as deltas
DeletedTasks(from, del) ==
    [k \in 1..Len(del) |->
        [orig |-> from[del[k]], kind |-> "Deleted", edits |-> <<>>, panic |-> FALSE]]

\* LeftTasks keeping the matched to-tasks as well
LeftTasks_all(to, left) == to

\* the to-tasks the matching leaves alone, in order
LeftTasks(to, left) == [k \in 1..Len(left) |-> to[left[k]]]

\* the value returned: new_tasks and changes (delta Deleted has no edit list),
\* with the local `matches` after the detection of recurred tasks
Returned(folded, deltas) ==
    [panic |-> \E k \in 1..Len(deltas) : deltas[k].panic,
     new_tasks |-> folded.new_tasks,
     changes |-> [k \in 1..Len(deltas) |->
                     [orig |-> deltas[k].orig, kind |-> deltas[k].kind,
                      edits |-> deltas[k].edits]],
     matches |-> folded.matches]

\* `changes`: the deltas of matches, then deleted_tasks
ChangesOf(folded, deleted_tasks) ==
    Returned(folded,
             [k \in 1..Len(folded.matches) |-> DeltaOf(folded.matches[k])]
                 \o deleted_tasks)

\* compute_changeset from the extraction of changed, new and deleted tasks on
\* (lines 317-398)
Extract(from, to, matching, allowed_divergence) ==
    ChangesOf(
        FoldNew(LeftTasks(to, Kept([j \in 1..Len(to) |->
                                       \A i \in 1..Len(from) : matching[i] # j],
                                   Len(to))),
                1, FirstMatches(from, to, matching), <<>>, allowed_divergence),
        DeletedTasks(from, Kept([i \in 1..Len(from) |-> matching[i] = 0], Len(from))))

\* compute_changeset once the common elements are removed (lines 303-398)
MatchAndExtract(from, to, allowed_divergence) ==
    Extract(from, to,
            stable_marriage_from_preference_lists(
                PreferencesMatrix(from, to, allowed_divergence),
                PreferencesMatrix(to, from, allowed_divergence)),
            allowed_divergence)

\* compute_changeset
compute_changeset(from0, to0, allowed_divergence) ==
    MatchAndExtract(remove_common(from0, to0)[1], remove_common(from0, to0)[2],
                    allowed_divergence)

(***************************************************************************)
(* Inputs and specification of the classifier.                             *)
(***************************************************************************)
Date1 == MkDate(2018, 4, 8)

Date2 == MkDate(2018, 4, 9)

Rec_strict_1d == <<"+", "1", "d">>

RecTag(r) == << <<"rec", r>> >>

CBPool ==
    {[subject |-> sub, priority |-> prio, create_date |-> None, finished |-> fin,
      finish_date |-> fdate, due_date |-> due, threshold_date |-> thr, tags |-> tags] :
        sub \in {Str_aab, Str_ab}, prio \in {NoPriority, 0}, fin \in BOOLEAN,
        fdate \in {None, Some(Date1)}, due \in {None, Some(Date1), Some(Date2)},
        thr \in {None, Some(Date1), Some(Date2)},
        tags \in {<<>>, RecTag(Rec_strict_1d)}}

CBInit ==
    /\ \E from \in CBPool, to \in CBPool, is_first \in BOOLEAN :
          cb = [pc |-> "call", from |-> from, to |-> to, is_first |-> is_first,
                out |-> OkVal(<<>>)]
    /\ sm = Idle
    /\ cs = Idle
    /\ ad = Idle
    /\ mg = Idle
    /\ rd = Idle

\* changes_between(from, to, is_first) is called and returns
CB_Call ==
    /\ cb.pc = "call"
    /\ cb' = [cb EXCEPT !.pc = "done",
                        !.out = changes_between(cb.from, cb.to, cb.is_first)]
    /\ UNCHANGED <<sm, cs, ad, mg, rd>>

CBNext == CB_Call

SpecCB == CBInit /\ [][CBNext]_vars

\* the kinds of the edits of a returned list
Kinds(res) == {res[i][1] : i \in 1..Len(res)}

\* C10: a list returned by changes_between holds at most one completion edit
\* among FinishedAt and Finished, never FinishedAt together with FinishDate,
\* and at most one postponement edit among PostponedStrictBy and DueDate
C10_OneOfEachFamily ==
    cb.pc = "done" /\ ~cb.out.panic =>
        LET res == cb.out.val
            N(kind) == Cardinality({i \in 1..Len(res) : res[i][1] = kind})
        IN  /\ N("FinishedAt") + N("Finished") <= 1
            /\ ~({"FinishedAt", "FinishDate"} \subseteq Kinds(res))
            /\ N("PostponedStrictBy") + N("DueDate") <= 1

\* a call that folds a completion and a postponement of due and threshold
\* dates into FinishedAt and PostponedStrictBy
C10_Witness ==
    /\ cb.pc = "done" /\ ~cb.out.panic
    /\ cb.from.finished # cb.to.finished
    /\ cb.from.finish_date # cb.to.finish_date
    /\ cb.from.due_date # cb.to.due_date
    /\ cb.from.threshold_date # cb.to.threshold_date
    /\ {"FinishedAt", "PostponedStrictBy"} \subseteq Kinds(cb.out.val)

(***************************************************************************)
(* Inputs and specification of the changeset builder.                      *)
(***************************************************************************)
Rec_1d == <<"1", "d">>

\* "aab due:2018-04-08 rec:1d"
RecTask ==
    [MkTask(Str_aab, FALSE) EXCEPT !.due_date = Some(Date1), !.tags = RecTag(Rec_1d)]

CSPool ==
    {MkTask(Str_aaa, FALSE), MkTask(Str_aab, FALSE), MkTask(Str_ab, FALSE),
     MkTask(Str_aab, TRUE), RecTask}

CSInit ==
    /\ \E from \in SeqsUpTo(CSPool, MaxTasks), to \in SeqsUpTo(CSPool, MaxTasks),
          div \in Divs :
          cs = [pc |-> "call", from |-> from, to |-> to, div |-> div,
                out |-> [panic |-> FALSE, new_tasks |-> <<>>, changes |-> <<>>,
                         matches |-> <<>>]]
    /\ sm = Idle
    /\ cb = Idle
    /\ ad = Idle
    /\ mg = Idle
    /\ rd = Idle

\* compute_changeset(from, to, allowed_divergence) is called and returns
CS_Call ==
    /\ cs.pc = "call"
    /\ cs' = [cs EXCEPT !.pc = "done",
                        !.out = compute_changeset(cs.from, cs.to, cs.div)]
    /\ UNCHANGED <<sm, cb, ad, mg, rd>>

CSNext == CS_Call

SpecCS == CSInit /\ [][CSNext]_vars

(***************************************************************************)
(* Inputs and specification of the similarity oracle.                      *)
(***************************************************************************)
\* the largest allowed_divergence: 100 - similarity with similarity in 0..100
MaxDivergence == 100

Str_a == <<"a">>

Str_aa == <<"a", "a">>

Str_bb == <<"b", "b">>

ADSubjects == Subjects \cup {Str_a, Str_aa, Str_bb}

ADInit ==
    /\ \E c \in ADSubjects, r \in ADSubjects, d \in 0..MaxDivergence :
          ad = [pc |-> "call", from |-> MkTask(c, FALSE), other |-> MkTask(r, FALSE),
                div |-> d, out |-> FALSE]
    /\ sm = Idle
    /\ cs = Idle
    /\ cb = Idle
    /\ mg = Idle
    /\ rd = Idle

\* is_task_admissible(from, other, allowed_divergence) is called and returns
AD_Call ==
    /\ ad.pc = "call"
    /\ ad' = [ad EXCEPT !.pc = "done",
                        !.out = is_task_admissible(ad.from, ad.other, ad.div)]
    /\ UNCHANGED <<sm, cs, cb, mg, rd>>

ADNext == AD_Call

SpecAD == ADInit /\ [][ADNext]_vars

(***************************************************************************)
(* Properties of compute_changeset and of the similarity oracle.           *)
(***************************************************************************)
\* the number of deltas whose original task is v
CountOrig(changes, v) == Cardinality({k \in 1..Len(changes) : changes[k].orig = v})

\* the number of to-tasks equal to v that matches pairs with or folds onto a
\* from-task
CountTargets(matches, v) ==
    Cardinality({p \in (1..Len(matches)) \X (1..Len(cs.to)) :
                    /\ p[2] <= Len(matches[p[1]].tasks)
                    /\ matches[p[1]].tasks[p[2]] = v})

CSDone == cs.pc = "done"

\* C4: compute_changeset(X, X, d) returns no new task and no delta at all,
\* hence none that is Deleted, Changed or Recurred, for every list X (with
\* duplicates) and every d
C4_IdentityIsEmpty ==
    CSDone /\ cs.from = cs.to =>
        /\ ~cs.out.panic
        /\ cs.out.new_tasks = <<>>
        /\ cs.out.changes = <<>>

C4_Witness ==
    /\ CSDone
    /\ cs.div = 0
    /\ cs.from = <<MkTask(Str_aab, FALSE), MkTask(Str_aab, FALSE)>>
    /\ cs.to = cs.from
    /\ cs.out.new_tasks = <<>>
    /\ cs.out.changes = <<>>

C6_AdmissibleIff ==
    ad.pc = "done" =>
        (ad.out <=> levenshtein(ad.from.subject, ad.other.subject) * 100
                        <= ad.div * Len(ad.other.subject))

\* C7: with allowed_divergence = 0 a pair is admissible exactly when the
\* subjects are equal, and with allowed_divergence = 100 every pair is
C7_Extremes ==
    ad.pc = "done" =>
        /\ ad.div = 0 => (ad.out <=> ad.from.subject = ad.other.subject)
        /\ ad.div = MaxDivergence => ad.out

AdmissibleMonotone ==
    \A d2 \in {d \in Divs : d > cs.div} :
        \A i \in 1..Len(cs.from), j \in 1..Len(cs.to) :
            /\ is_task_admissible(cs.from[i], cs.to[j], cs.div)
                  => is_task_admissible(cs.from[i], cs.to[j], d2)
            /\ is_task_admissible(cs.to[j], cs.from[i], cs.div)
                  => is_task_admissible(cs.to[j], cs.from[i], d2)

\* every pair matched at the divergence of the call is matched at every
\* larger divergence d2
MatchedStaysMatched ==
    \A d2 \in {d \in Divs : d > cs.div} :
        LET later == compute_changeset(cs.from, cs.to, d2).matches
        IN  \A k \in 1..Len(cs.out.matches) :
                \E l \in 1..Len(later) :
                    /\ later[l].orig = cs.out.matches[k].orig
                    /\ later[l].tasks[1] = cs.out.matches[k].tasks[1]

\* C9 (as amended): for fixed from and to and d1 < d2, every pair admissible at
\* d1 is admissible at d2
C9_AdmissibleMonotone == CSDone => AdmissibleMonotone

C9_Witness ==
    /\ CSDone
    /\ cs.div = 34
    /\ cs.from = <<MkTask(Str_ab, FALSE), MkTask(Str_aaa, FALSE)>>
    /\ cs.to = <<MkTask(Str_aab, FALSE)>>
    /\ Len(cs.out.matches) = 1
    /\ cs.out.matches[1].orig = MkTask(Str_aaa, FALSE)
    /\ cs.out.matches[1].tasks = cs.to
    /\ is_task_admissible(cs.from[2], cs.to[1], 51)

\* C9 (as stated): for fixed from and to and d1 < d2, every pair admissible at
\* d1 is admissible at d2 and every pair matched at d1 is still matched at d2
C9_Monotone == CSDone => AdmissibleMonotone /\ MatchedStaysMatched

(***************************************************************************)
(* Properties of changes_between on equal tasks.                           *)
(***************************************************************************)
\* C11: for every task a without a recurrence tag, changes_between(a, a, true)
\* returns the empty list
C11_RoundTrip ==
    (/\ cb.pc = "done"
     /\ cb.from = cb.to
     /\ cb.is_first
     /\ ~IsSome(TagGet(cb.from.tags, "rec")))
    => cb.out = OkVal(<<>>)

\* a finished task with a priority and all its dates, compared with itself
C11_Witness ==
    /\ cb.pc = "done"
    /\ cb.is_first
    /\ cb.from = cb.to
    /\ cb.from.tags = <<>>
    /\ cb.from.finished
    /\ cb.from.priority = 0
    /\ cb.from.finish_date = Some(Date1)
    /\ cb.from.due_date = Some(Date2)
    /\ cb.from.threshold_date = Some(Date1)
    /\ cb.out = OkVal(<<>>)

(***************************************************************************)
(* The three-way merge.  match_tasks is the changeset builder as           *)
(* merge_3way calls it: one delta per task of from, in the order of from,  *)
(* Identical for a task matched to its equal.  A delta is a record         *)
(* [orig, kind, tasks]; a merge result is <<"Merged", task>> or            *)
(* <<"Conflict", ancestor, left tasks, right tasks>>.                      *)
(***************************************************************************)
\* the position of the to-task matched to from-task i when stable_marriage
\* ends in state s, or 0
PartnerOfMan(s, i) ==
    IF \E w \in 1..Len(s.women) : s.wmatch[w] = i
    THEN CHOOSE w \in 1..Len(s.women) : s.wmatch[w] = i
    ELSE 0

\* the delta of from-task i before the detection of recurred tasks, w being
\* the position of its partner
ProvisionalDelta(t, to, w) ==
    [orig |-> t,
     kind |-> IF w = 0 THEN "Deleted"
              ELSE IF t = to[w] THEN "Identical"
              ELSE IF IsSome(TagGet(t.tags, "rec")) THEN "Recurred"
              ELSE "Changed",
     tasks |-> IF w = 0 \/ t = to[w] THEN <<>> ELSE <<to[w]>>]

\* Option<date> ordering of due dates: None first
DueLeq(x, y) ==
    IF ~IsSome(x.due_date) THEN TRUE
    ELSE IF ~IsSome(y.due_date) THEN FALSE
    ELSE DayNumber(Unwrap(x.due_date)) <= DayNumber(Unwrap(y.due_date))

RECURSIVE DueInsert(_, _)
DueInsert(sorted, x) ==
    IF Len(sorted) = 0 THEN <<x>>
    ELSE IF DueLeq(Head(sorted), x) THEN <<Head(sorted)>> \o DueInsert(Tail(sorted), x)
    ELSE <<x>> \o sorted

\* a chain sorted by due date ascending, equal due dates in chain order
RECURSIVE SortByDue(_)
SortByDue(q) ==
    IF Len(q) = 0 THEN <<>>
    ELSE DueInsert(SortByDue(SubSeq(q, 1, Len(q) - 1)), q[Len(q)])

\* MatchedOf with the Deleted deltas moved behind the others, the order of the
\* changes of compute_changeset
MatchedOf_deletedLast(folded) ==
    [new_tasks |-> folded.new_tasks,
     changes |-> SelectSeq([k \in 1..Len(folded.matches) |->
                               [folded.matches[k] EXCEPT !.tasks = SortByDue(@)]],
                           LAMBDA x : x.kind # "Deleted")
                 \o SelectSeq(folded.matches, LAMBDA x : x.kind = "Deleted")]

\* the value match_tasks returns from the folded deltas: chains sorted
MatchedOf(folded) ==
    [new_tasks |-> folded.new_tasks,
     changes |-> [k \in 1..Len(folded.matches) |->
                     [folded.matches[k] EXCEPT !.tasks = SortByDue(@)]]]

\* match_tasks from the final state s of stable_marriage on
MatchTasksFrom(from, to, s, allowed_divergence) ==
    MatchedOf(
        FoldNew(LeftTasks(to, Kept([w \in 1..Len(to) |-> s.wmatch[w] = 0], Len(to))),
                1,
                [i \in 1..Len(from) |-> ProvisionalDelta(from[i], to, PartnerOfMan(s, i))],
                <<>>, allowed_divergence))

\* match_tasks: from-tasks propose, to-tasks are the targets
match_tasks(from, to, allowed_divergence) ==
    MatchTasksFrom(from, to,
                   SMRun(SMStart("task", from, to, allowed_divergence, <<>>, <<>>)),
                   allowed_divergence)

\* the elements remove_common takes out of both lists, in the order of a: the
\* value the remove_common of merge_changes.rs returns
RECURSIVE CommonFrom(_, _, _)
CommonFrom(orig, k, b) ==
    IF k > Len(orig) THEN <<>>
    ELSE IF Position(b, orig[k]) # 0
         THEN <<orig[k]>> \o CommonFrom(orig, k + 1, RemoveAt(b, Position(b, orig[k])))
         ELSE CommonFrom(orig, k + 1, b)

\* merged_new without the removal of the common new tasks
MergedNew_concat(new_left, new_right) == new_left \o new_right

\* merged_new: the new tasks common to both sides once, then the rest of the
\* left ones, then the rest of the right ones
MergedNew(new_left, new_right) ==
    CommonFrom(new_left, 1, new_right)
        \o remove_common(new_left, new_right)[1]
        \o remove_common(new_left, new_right)[2]

\* MergeOne taking the left side whenever the left side changed
MergeOne_leftWins(left_chgt, right_chgt) ==
    IF left_chgt.kind = "Identical" /\ right_chgt.kind = "Identical"
    THEN << <<"Merged", left_chgt.orig>> >>
    ELSE IF left_chgt.kind = "Identical"
    THEN [k \in 1..Len(right_chgt.tasks) |-> <<"Merged", right_chgt.tasks[k]>>]
    ELSE [k \in 1..Len(left_chgt.tasks) |-> <<"Merged", left_chgt.tasks[k]>>]

\* MergeOne keeping the ancestor when only the right side changed
MergeOne_keepAncestor(left_chgt, right_chgt) ==
    IF left_chgt.kind = "Identical"
    THEN << <<"Merged", left_chgt.orig>> >>
    ELSE IF right_chgt.kind = "Identical"
    THEN [k \in 1..Len(left_chgt.tasks) |-> <<"Merged", left_chgt.tasks[k]>>]
    ELSE << <<"Conflict", left_chgt.orig, left_chgt.tasks, right_chgt.tasks>> >>

\* the match of merge_3way on one pair of zipped deltas
MergeOne(left_chgt, right_chgt) ==
    IF left_chgt.kind = "Identical" /\ right_chgt.kind = "Identical"
    THEN << <<"Merged", left_chgt.orig>> >>
    ELSE IF left_chgt.kind = "Identical"
    THEN [k \in 1..Len(right_chgt.tasks) |-> <<"Merged", right_chgt.tasks[k]>>]
    ELSE IF right_chgt.kind = "Identical"
    THEN [k \in 1..Len(left_chgt.tasks) |-> <<"Merged", left_chgt.tasks[k]>>]
    ELSE << <<"Conflict", left_chgt.orig, left_chgt.tasks, right_chgt.tasks>> >>

\* zip and flat_map over the first n positions of the two delta streams
RECURSIVE MergeZip(_, _, _)
MergeZip(changes_left, changes_right, n) ==
    IF n = 0 THEN <<>>
    ELSE MergeZip(changes_left, changes_right, n - 1)
             \o MergeOne(changes_left[n], changes_right[n])

\* merge_3way from the two results of match_tasks on
MergeOf(l, r) ==
    MergeZip(l.changes, r.changes, Min2(Len(l.changes), Len(r.changes)))
        \o [k \in 1..Len(MergedNew(l.new_tasks, r.new_tasks)) |->
               <<"Merged", MergedNew(l.new_tasks, r.new_tasks)[k]>>]

\* merge_3way
merge_3way(from, left, right, allowed_divergence) ==
    MergeOf(match_tasks(from, left, allowed_divergence),
            match_tasks(from, right, allowed_divergence))

(***************************************************************************)
(* display_changeset without colours.  The text is kept as the sequence of *)
(* its lines: a title, a task line (the task, as todo_txt prints it) or an *)
(* edit line (the phrases of change_str, which display_changes joins).     *)
(***************************************************************************)
is_recurred(c) == c[1] \in {"RecurredStrict", "RecurredFrom"}

is_completion(c) == c[1] = "FinishedAt" \/ c = <<"Finished", TRUE>>

is_postponed(c) ==
    \/ c[1] = "PostponedStrictBy"
    \/ c[1] = "DueDate" /\ IsSome(c[2]) /\ IsSome(c[3])

\* some edit of the delta satisfies p
AnyEdit(x, p(_)) ==
    \E i \in 1..Len(x.edits) : \E k \in 1..Len(x.edits[i]) : p(x.edits[i][k])

has_been_recurred(x) == AnyEdit(x, is_recurred)

has_been_completed(x) == AnyEdit(x, is_completion)

has_been_postponed(x) == AnyEdit(x, is_postponed)

\* the phrases for a (before, after) pair of options: the value before is
\* printed by none of them
OptionStr(c, removed, added, set) ==
    IF ~IsSome(c[3]) THEN <<removed>>
    ELSE IF ~IsSome(c[2]) THEN <<added, Unwrap(c[3])>>
    ELSE <<set, Unwrap(c[3])>>

\* change_str: the phrase of one edit with the values it prints
change_str(c) ==
    CASE c[1] = "Created" -> <<"created">>
      [] c[1] = "Copied" -> <<"copied">>
      [] c[1] = "RecurredStrict" -> <<"recurred (strict)">>
      [] c[1] = "RecurredFrom" -> <<"recurred (from)", c[2]>>
      [] c[1] = "FinishedAt" -> <<"completed on", c[2]>>
      [] c[1] = "PostponedStrictBy" -> <<"postponed (strict) by days", c[2]>>
      [] c[1] = "Finished" -> IF c[2] THEN <<"completed">> ELSE <<"uncompleted">>
      [] c[1] = "Priority" ->
            OptionStr(c, "removed priority", "added priority", "set priority to")
      [] c[1] = "FinishDate" ->
            OptionStr(c, "removed completion date", "added completion date",
                      "set completion date to")
      [] c[1] = "CreateDate" ->
            OptionStr(c, "removed creation date", "added creation date",
                      "set creation date to")
      [] c[1] = "Subject" -> <<"set subject to", c[3]>>
      [] c[1] = "DueDate" ->
            OptionStr(c, "removed due date", "added due date", "postponed to")
      [] c[1] = "ThresholdDate" ->
            OptionStr(c, "removed threshold date", "added threshold date",
                      "set threshold date to")
      [] c[1] = "Tags" -> <<"removed tags, added tags", c[2], c[3]>>

\* display_changes: one line for one list of edits
display_changes(chgs_for_me) ==
    <<"edits", [k \in 1..Len(chgs_for_me) |-> change_str(chgs_for_me[k])]>>

\* uncomplete of todo_txt
uncomplete(x) == [x EXCEPT !.finished = FALSE, !.finish_date = None]

\* a completed new task as a task created and completed
CreatedTask(x) ==
    [orig |-> uncomplete(x), kind |-> "Changed",
     edits |-> << << <<"Created">> >> \o changes_between(uncomplete(x), x, TRUE).val >>]

\* sort_by_key on (key, value) pairs: a stable sort
RECURSIVE KeyInsert(_, _)
KeyInsert(sorted, p) ==
    IF Len(sorted) = 0 THEN <<p>>
    ELSE IF sorted[Len(sorted)][1] <= p[1] THEN Append(sorted, p)
    ELSE Append(KeyInsert(SubSeq(sorted, 1, Len(sorted) - 1), p), sorted[Len(sorted)])

RECURSIVE SortPairs(_)
SortPairs(q) ==
    IF Len(q) = 0 THEN <<>>
    ELSE KeyInsert(SortPairs(SubSeq(q, 1, Len(q) - 1)), q[Len(q)])

\* the order of Option<Date>: None first
CreatedBefore(x, y) ==
    /\ IsSome(y.create_date)
    /\ IsSome(x.create_date) => DayNumber(Unwrap(x.create_date)) < DayNumber(Unwrap(y.create_date))

RECURSIVE CreateInsert(_, _)
CreateInsert(sorted, x) ==
    IF Len(sorted) = 0 THEN <<x>>
    ELSE IF ~CreatedBefore(x, sorted[Len(sorted)]) THEN Append(sorted, x)
    ELSE Append(CreateInsert(SubSeq(sorted, 1, Len(sorted) - 1), x), sorted[Len(sorted)])

\* category_new.sort_by_key(|x| x.create_date)
RECURSIVE SortByCreateDate(_)
SortByCreateDate(q) ==
    IF Len(q) = 0 THEN <<>>
    ELSE CreateInsert(SortByCreateDate(SubSeq(q, 1, Len(q) - 1)), q[Len(q)])

\* category_new: the new tasks that are not completed
category_new(new_tasks) ==
    SortByCreateDate(SelectSeq(new_tasks, LAMBDA x : ~x.finished))

category_deleted(changes) ==
    LET deleted == SelectSeq(changes, LAMBDA x : x.kind = "Deleted")
    IN  [k \in 1..Len(deleted) |-> deleted[k].orig]

\* the key of category_completed
CompletedKey(x) ==
    IF has_been_recurred(x) THEN 100 ELSE IF has_been_completed(x) THEN 200 ELSE 500

\* the key of category_changed
ChangedKey(x) == IF has_been_postponed(x) THEN 100 ELSE 500

Values(pairs) == [k \in 1..Len(pairs) |-> pairs[k][2]]

CompletedOf(changed, completed_new_tasks) ==
    changed \o [k \in 1..Len(completed_new_tasks) |-> CreatedTask(completed_new_tasks[k])]

\* the (key, value) pairs category_completed is sorted by
CompletedKeyed(all) == [k \in 1..Len(all) |-> <<CompletedKey(all[k]), all[k]>>]

category_completed(new_tasks, changes) ==
    Values(SortPairs(CompletedKeyed(
        CompletedOf(SelectSeq(changes, LAMBDA x : has_been_recurred(x)
                                                   \/ has_been_completed(x)),
                    SelectSeq(new_tasks, LAMBDA x : x.finished)))))

category_changed(changes) ==
    LET all == SelectSeq(changes, LAMBDA x : /\ x.kind # "Identical"
                                             /\ x.kind # "Deleted"
                                             /\ ~has_been_recurred(x)
                                             /\ ~has_been_completed(x))
    IN  Values(SortPairs([k \in 1..Len(all) |-> <<ChangedKey(all[k]), all[k]>>]))

\* the lines of a list of tasks
TaskLines(tasks) == [k \in 1..Len(tasks) |-> <<"task", tasks[k]>>]

\* the lines of a list of changed tasks: the original, then one line per edit
\* list of its delta
RECURSIVE DeltaLines(_)
DeltaLines(xs) ==
    IF Len(xs) = 0 THEN <<>>
    ELSE << <<"task", Head(xs).orig>> >>
         \o [i \in 1..Len(Head(xs).edits) |-> display_changes(Head(xs).edits[i])]
         \o DeltaLines(Tail(xs))

\* a category under its title, nothing when the category is empty
Section(title, lines) == IF Len(lines) = 0 THEN <<>> ELSE << <<title>> >> \o lines

NoChanges(lines) == IF Len(lines) = 0 THEN << <<"No changes.">> >> ELSE lines

display_changeset(new_tasks, changes) ==
    NoChanges(Section("New tasks", TaskLines(category_new(new_tasks)))
              \o Section("Deleted tasks", TaskLines(category_deleted(changes)))
              \o Section("Completed tasks", DeltaLines(category_completed(new_tasks, changes)))
              \o Section("Changed tasks", DeltaLines(category_changed(changes))))

\* display_changeset of a result of compute_changeset, or its abort
DisplayResult(diff) ==
    IF diff.panic THEN Panic ELSE OkVal(display_changeset(diff.new_tasks, diff.changes))

\* the text MergeTest::run compares: the displayed changeset between two lists
DisplayedDiff(from, to, allowed_divergence) ==
    DisplayResult(compute_changeset(from, to, allowed_divergence))

\* merge_successful
merge_successful(merge) == \A k \in 1..Len(merge) : merge[k][1] = "Merged"

\* extract_merge_result: the merged tasks, None when some result is a Conflict
extract_merge_result(merge) ==
    IF merge_successful(merge) THEN Some([k \in 1..Len(merge) |-> merge[k][2]]) ELSE None

\* no changeset is displayed
NoDiffs ==
    [diff_from_left |-> None, diff_right_result |-> None,
     diff_from_right |-> None, diff_left_result |-> None]

\* the displayed changeset of every (from, to) pair of a list
DisplayedDiffs(pairs, allowed_divergence) ==
    [k \in 1..Len(pairs) |-> DisplayedDiff(pairs[k][1], pairs[k][2], allowed_divergence)]

\* the four texts under the names MergeTest::run gives their changesets
DiffsOf(texts) ==
    [diff_from_left |-> Some(texts[1]), diff_right_result |-> Some(texts[2]),
     diff_from_right |-> Some(texts[3]), diff_left_result |-> Some(texts[4])]

\* the two comparisons of MergeTest::run on a result of merge_3way
MergeDiffs(from, left, right, merge_result, allowed_divergence) ==
    IF IsSome(merge_result)
    THEN DiffsOf(DisplayedDiffs(<< <<from, left>>, <<right, Unwrap(merge_result)>>,
                                   <<from, right>>, <<left, Unwrap(merge_result)>> >>,
                                allowed_divergence))
    ELSE NoDiffs

(***************************************************************************)
(* Inputs and specification of the three-way merge.                        *)
(***************************************************************************)
\* "aab due:2018-04-09 rec:1d"
RecTask2 == [RecTask EXCEPT !.due_date = Some(Date2)]

\* the ancestor tasks: one without and one with a recurrence
MGFromPool == {MkTask(Str_aab, FALSE), RecTask}

\* the tasks of the two sides: the ancestors, kept or changed
MGPool == MGFromPool \cup {MkTask(Str_aab, TRUE), RecTask2}

\* no pair of distinct tasks is admissible at 0, every pair of the pool at 25
MGDivs == {0, 25}

NoMatch == [new_tasks |-> <<>>, changes |-> <<>>]

MGInit ==
    /\ \E from \in SeqsUpTo(MGFromPool, MaxTasks), left \in SeqsUpTo(MGPool, MaxTasks),
          right \in SeqsUpTo(MGPool, MaxTasks), div \in MGDivs :
          mg = [pc |-> "call", from |-> from, left |-> left, right |-> right,
                div |-> div, l |-> NoMatch, r |-> NoMatch, out |-> <<>>,
                merge_result |-> None, diffs |-> NoDiffs]
    /\ sm = Idle
    /\ cs = Idle
    /\ cb = Idle
    /\ ad = Idle
    /\ rd = Idle

\* MergeTest::run once merge_3way has returned `out`; l and r keep the two
\* results of match_tasks
MergeTestDiffs(s, l, r, out) ==
    [s EXCEPT !.pc = "done", !.l = l, !.r = r, !.out = out,
              !.merge_result = extract_merge_result(out),
              !.diffs = MergeDiffs(s.from, s.left, s.right, extract_merge_result(out),
                                   s.div)]

\* MergeTest::run: merge_3way is called once, then its result is extracted
\* and, when there is one, the four changesets are displayed
MergeTestRun(s) ==
    CHOOSE t \in {MergeTestDiffs(s, l, r, out) :
                     l \in {match_tasks(s.from, s.left, s.div)},
                     r \in {match_tasks(s.from, s.right, s.div)},
                     out \in {merge_3way(s.from, s.left, s.right, s.div)}} : TRUE

\* MergeTest::run on from, left, right and allowed_divergence
MG_Call ==
    /\ mg.pc = "call"
    /\ mg' = MergeTestRun(mg)
    /\ UNCHANGED <<sm, cs, cb, ad, rd>>

MGNext == MG_Call

SpecMG == MGInit /\ [][MGNext]_vars

(***************************************************************************)
(* Properties of merge_3way.                                               *)
(***************************************************************************)
MGDone == mg.pc = "done"

IsConflict(x) == x[1] = "Conflict"

IsMerged(x) == x[1] = "Merged"

\* ancestor i was changed on the left, on the right
ChangedLeft(i) == mg.l.changes[i].kind # "Identical"

ChangedRight(i) == mg.r.changes[i].kind # "Identical"

\* the results of the ancestors 1..n, in order: nothing but Conflict entries
\* where both sides changed the ancestor
RECURSIVE ConflictsUpTo(_)
ConflictsUpTo(n) ==
    IF n = 0 THEN <<>>
    ELSE ConflictsUpTo(n - 1)
         \o (IF ChangedLeft(n) /\ ChangedRight(n)
             THEN << <<"Conflict", mg.from[n], mg.l.changes[n].tasks,
                       mg.r.changes[n].tasks>> >>
             ELSE <<>>)

\* the number of results that stem from the ancestors: one per conflict,
\* one per unchanged ancestor, one per task of the only side that changed it
RECURSIVE AncestorResults(_)
AncestorResults(n) ==
    IF n = 0 THEN 0
    ELSE AncestorResults(n - 1)
         + (IF ChangedLeft(n) /\ ChangedRight(n) THEN 1
            ELSE IF ChangedLeft(n) THEN Len(mg.l.changes[n].tasks)
            ELSE IF ChangedRight(n) THEN Len(mg.r.changes[n].tasks)
            ELSE 1)

\* C12: merge_3way emits a Conflict for an ancestor exactly when both its
\* left delta and its right delta are not Identical, carrying the ancestor and
\* the results of both sides; the Conflict entries of the output are those of
\* the ancestors both sides changed, in order, and no others
C12_ConflictIff ==
    MGDone => SelectSeq(mg.out, IsConflict) = ConflictsUpTo(Len(mg.from))

\* both sides complete the ancestor in the same way
C12_Witness ==
    /\ MGDone
    /\ mg.div = 25
    /\ mg.from = <<MkTask(Str_aab, FALSE)>>
    /\ mg.left = <<MkTask(Str_aab, TRUE)>>
    /\ mg.right = mg.left
    /\ mg.out = << <<"Conflict", mg.from[1], mg.left, mg.right>> >>

\* the Merged results of the ancestors 1..n, in order
RECURSIVE MergedUpTo(_)
MergedUpTo(n) ==
    IF n = 0 THEN <<>>
    ELSE MergedUpTo(n - 1)
         \o (IF ChangedLeft(n) /\ ChangedRight(n) THEN <<>>
             ELSE IF ChangedLeft(n) THEN mg.l.changes[n].tasks
             ELSE IF ChangedRight(n) THEN mg.r.changes[n].tasks
             ELSE <<mg.from[n]>>)

\* C13: an ancestor that exactly one side changed yields as Merged the tasks
\* that side produced for it (none if Deleted, one if Changed, the chain if
\* Recurred), and an ancestor that neither side changed yields Merged(ancestor)
C13_OneSideTaken ==
    MGDone =>
        LET head == SubSeq(mg.out, 1, AncestorResults(Len(mg.from)))
            merged == SelectSeq(head, IsMerged)
        IN  /\ Len(mg.out) >= AncestorResults(Len(mg.from))
            /\ [k \in 1..Len(merged) |-> merged[k][2]] = MergedUpTo(Len(mg.from))

\* the left side keeps the task, the right side completes it
C13_Witness ==
    /\ MGDone
    /\ mg.div = 25
    /\ mg.from = <<MkTask(Str_aab, FALSE)>>
    /\ mg.left = mg.from
    /\ mg.right = <<MkTask(Str_aab, TRUE)>>
    /\ mg.r.changes[1].kind = "Changed"
    /\ mg.out = << <<"Merged", MkTask(Str_aab, TRUE)>> >>

Max2(a, b) == IF a >= b THEN a ELSE b

\* C14: the tasks new on either side come after all the results of the
\* ancestors, as Merged, a task new c_l times on the left and c_r times on the
\* right appearing max(c_l, c_r) times among them
C14_NewAppended ==
    MGDone =>
        LET n == AncestorResults(Len(mg.from))
            tail == SubSeq(mg.out, n + 1, Len(mg.out))
        IN  /\ Len(mg.out) >= n
            /\ \A k \in 1..Len(tail) : IsMerged(tail[k])
            /\ \A v \in MGPool :
                  Count([k \in 1..Len(tail) |-> tail[k][2]], v)
                      = Max2(Count(mg.l.new_tasks, v), Count(mg.r.new_tasks, v))

\* both sides keep the ancestor and add the same task: it is appended once
C14_Witness ==
    /\ MGDone
    /\ mg.div = 0
    /\ mg.from = <<RecTask>>
    /\ mg.left = <<RecTask, MkTask(Str_aab, TRUE)>>
    /\ mg.right = <<MkTask(Str_aab, TRUE), RecTask>>
    /\ mg.l.new_tasks = <<MkTask(Str_aab, TRUE)>>
    /\ mg.r.new_tasks = <<MkTask(Str_aab, TRUE)>>
    /\ mg.out = << <<"Merged", RecTask>>, <<"Merged", MkTask(Str_aab, TRUE)>> >>

C16_MergeCommutes ==
    MGDone /\ IsSome(mg.merge_result) =>
        /\ mg.diffs.diff_from_left = mg.diffs.diff_right_result
        /\ mg.diffs.diff_from_right = mg.diffs.diff_left_result


(***************************************************************************)
(* Inputs and specification of add_recspec_to_date.                        *)
(***************************************************************************)
\* the ends of January, February and December of a common and of a leap year
RDDates ==
    {date \in [y : {2019, 2020}, m : {1, 2, 12}, d : 28..31] :
        date.d <= DaysInMonth(date.y, date.m)}

\* intervals below, at and over one year, in days, weeks, months and years
RDRecspecs ==
    {n \o <<u>> : n \in {<<"0">>, <<"1">>, <<"1", "1">>, <<"1", "2">>, <<"1", "3">>},
                  u \in {"d", "w", "m", "y"}}

RDInit ==
    /\ \E date \in RDDates, recspec \in RDRecspecs :
          rd = [pc |-> "call", date |-> date, recspec |-> recspec, out |-> Panic]
    /\ sm = Idle
    /\ cs = Idle
    /\ cb = Idle
    /\ ad = Idle
    /\ mg = Idle

\* add_recspec_to_date(date, recspec) is called and returns or aborts
RD_Call ==
    /\ rd.pc = "call"
    /\ rd' = [rd EXCEPT !.pc = "done", !.out = add_recspec_to_date(rd.date, rd.recspec)]
    /\ UNCHANGED <<sm, cs, cb, ad, mg>>

RDNext == RD_Call

SpecRD == RDInit /\ [][RDNext]_vars

\* the day of month `d` in month0 `m0` of year `y`, or the last day of that
\* month when it has no such day
Clamped(y, m0, d) == MkDate(y, m0 + 1, Min2(d, DaysInMonth(y, m0 + 1)))

\* the interval of a recspec: its count and its unit
RDCount == Unwrap(parse_u16(SubSeq(rd.recspec, 1, Len(rd.recspec) - 1)))

RDUnit == rd.recspec[Len(rd.recspec)]

\* C17: adding a recurrence interval to a date is total and clamps: for every
\* valid date and every interval of n months or n years add_recspec_to_date
\* returns a date, never aborts: the date in month (m + n) mod 12 of year
\* y + (m + n) div 12 (n years further for an interval in years) with the same
\* day of month, or the last day of that month when the day does not exist
C17_TotalClamps ==
    rd.pc = "done" =>
        /\ RDUnit = "m" =>
              rd.out = OkVal(Some(Clamped(rd.date.y + (rd.date.m - 1 + RDCount) \div 12,
                                          (rd.date.m - 1 + RDCount) % 12, rd.date.d)))
        /\ RDUnit = "y" =>
              rd.out = OkVal(Some(Clamped(rd.date.y + RDCount, rd.date.m - 1, rd.date.d)))

(***************************************************************************)
(* compute_changeset on the successors of a recurring task.                *)
(***************************************************************************)
Date3 == MkDate(2018, 4, 10)

\* "aab due:2018-04-10 rec:1d"
RecTask3 == [RecTask EXCEPT !.due_date = Some(Date3)]

\* the recurring task one day and two days later, and a completed task that
\* lost its due date
CHPool == {RecTask2, RecTask3, MkTask(Str_aab, TRUE)}

CHInit ==
    /\ \E from \in SeqsUpTo({RecTask}, MaxTasks), to \in SeqsUpTo(CHPool, MaxTasks),
          div \in Divs :
          cs = [pc |-> "call", from |-> from, to |-> to, div |-> div,
                out |-> [panic |-> FALSE, new_tasks |-> <<>>, changes |-> <<>>,
                         matches |-> <<>>]]
    /\ sm = Idle
    /\ cb = Idle
    /\ ad = Idle
    /\ mg = Idle
    /\ rd = Idle

SpecCH == CHInit /\ [][CSNext]_vars

\* the chain member before member i of a chain: the original before the first
ChainPrevious(x, i) == IF i = 1 THEN x.orig ELSE x.tasks[i - 1]

\* C18: chain ordering: in every Recurred delta returned by compute_changeset
\* the chain members are ordered by due date ascending (the due dates of
\* successive chain members are non-decreasing) whatever the order of the to
\* list, and the edit list of each member is computed from the previous chain
\* member to this one
C18_ChainOrdered ==
    CSDone /\ ~cs.out.panic =>
        \A k \in 1..Len(cs.out.matches) :
            cs.out.changes[k].kind = "Recurred" =>
                LET x == cs.out.matches[k]
                IN  /\ \A i \in 1..(Len(x.tasks) - 1) : DueLeq(x.tasks[i], x.tasks[i + 1])
                    /\ \A i \in 1..Len(x.tasks) :
                          cs.out.changes[k].edits[i]
                              = changes_between(ChainPrevious(x, i), x.tasks[i], i = 1).val

(***************************************************************************)
(* stable_marriage with a Matcher that declares perfect matches: rankings  *)
(* as in IndexMatcher, and a relation of perfect pairs.                    *)
(***************************************************************************)
\* rankings of the first two women by a man
PMMenLists == {<<1, 2>>, <<2, 1>>, <<1>>, <<2>>}

\* rankings of the first three men by a woman
PMWomenLists == {<<1, 2, 3>>, <<3, 2, 1>>, <<2, 1>>, <<3, 1>>}

\* the pairs (man, woman) is_perfect_match accepts
PMPerfect == {{}, {<<1, 1>>}, {<<1, 1>>, <<2, 2>>}, {<<2, 1>>, <<3, 2>>}}

PMInit ==
    /\ \E mlists \in [1..MaxMen -> PMMenLists], wlists \in [1..MaxWomen -> PMWomenLists],
          perfect \in PMPerfect :
          sm = [SMStart("index", [i \in 1..MaxMen |-> i], [i \in 1..MaxWomen |-> i], 0,
                        mlists, wlists)
                    EXCEPT !.perfect = perfect]
    /\ cs = Idle
    /\ cb = Idle
    /\ ad = Idle
    /\ mg = Idle
    /\ rd = Idle

SpecPM == PMInit /\ [][SMNext]_vars

\* woman w is locked: her match is bound to her through is_perfect_match
Locked(w) == sm.pc # "idle" /\ sm.wperfect[w]

\* C19: perfect-match lock: a proposer bound to a target through
\* is_perfect_match never enters the proposal loop (he is never the held man,
\* gets no preference list and is not among the unmatched), and the target
\* keeps that same proposer up to the final output whatever proposers are
\* processed afterwards, even one she would otherwise rank strictly closer
C19_PerfectLock ==
    [][\A w \in 1..Len(sm.women) :
          Locked(w) =>
              /\ sm'.wperfect[w]
              /\ sm'.wmatch[w] = sm.wmatch[w]
              /\ sm.held # sm.wmatch[w] /\ sm'.held # sm.wmatch[w]
              /\ sm'.prefs[sm.wmatch[w]] = <<>>
              /\ \A k \in 1..Len(sm'.unmatched) : sm'.unmatched[k] # sm.wmatch[w]
              /\ sm'.pc = "done" =>
                    SMOutput(sm').women[w][2] = Some(sm.men[sm.wmatch[w]])]_vars

\* woman 1 is locked to man 1; man 2, whom she ranks above man 1, has proposed
\* to her first and was turned down
C19_Witness ==
    /\ sm.pc = "done"
    /\ sm.perfect = {<<1, 1>>}
    /\ sm.wperfect[1]
    /\ sm.wmatch[1] = 1
    /\ sm.wlists[1] = <<3, 2, 1>>
    /\ sm.mlists[2] = <<1, 2>>
    /\ sm.nprop >= 2
    /\ SMOutput(sm).women[1][2] = Some(1)

(***************************************************************************)
(* Properties of compute_preference_list.                                  *)
(***************************************************************************)
\* the next man gets a preference list in this step
ListComputed ==
    /\ sm.pc = "outer" /\ sm.next <= Len(sm.men)
    /\ find_perfect_match(sm, sm.next) = 0

\* the order in which the man proposes: the list is popped from its end
ProposalOrder(l) == Reverse(l)

\* the Levenshtein distance between man m and woman w
Distance(s, m, w) == levenshtein(s.women[w].subject, s.men[m].subject)

\* l goes by ascending distance to man m, and by ascending position among the
\* women at the same distance; no position comes twice
AscendingDistance(s, m, l) ==
    \A a, b \in 1..Len(l) :
        a < b => \/ Distance(s, m, l[a]) < Distance(s, m, l[b])
                 \/ /\ Distance(s, m, l[a]) = Distance(s, m, l[b])
                    /\ l[a] < l[b]

OPMenLists == {<<1, 2>>, <<2, 1>>, <<2>>}

\* rankings of the first three men by a woman
OPWomenLists == {<<1, 2, 3>>, <<3, 2, 1>>, <<2, 1>>}

\* the orders in which n men can be listed
Perms(n) == {p \in [1..n -> 1..n] : \A i, j \in 1..n : i # j => p[i] # p[j]}

OPInit ==
    /\ \E men \in Perms(MaxMen), mlists \in [1..MaxMen -> OPMenLists],
          wlists \in [1..MaxWomen -> OPWomenLists] :
          sm = SMStart("index", men, [i \in 1..MaxWomen |-> i], 0, mlists, wlists)
    /\ cs = Idle
    /\ cb = Idle
    /\ ad = Idle
    /\ mg = Idle
    /\ rd = Idle

\* the steps of stable_marriage with IndexMatcher, whose is_perfect_match is
\* the default: no man takes the perfect-match shortcut
OPNext ==
    \/ SM_TakeCompute
    \/ SM_ProposeFree
    \/ SM_ProposeReplace
    \/ SM_ProposeReject
    \/ SM_Exhaust
    \/ SM_Return

SpecOP == OPInit /\ [][OPNext]_vars

\* the assignments of the men of s to women (0: none), no woman taken twice
Matchings(s) ==
    {mu \in [1..Len(s.men) -> 0..Len(s.women)] :
        \A m1, m2 \in 1..Len(s.men) : m1 # m2 /\ mu[m1] # 0 => mu[m1] # mu[m2]}

\* s with the women matched as mu says
WithMatching(s, mu) ==
    [s EXCEPT !.wmatch = [w \in 1..Len(s.women) |->
                             IF \E m \in 1..Len(s.men) : mu[m] = w
                             THEN CHOOSE m \in 1..Len(s.men) : mu[m] = w
                             ELSE 0]]

\* mu is a stable matching: it pairs mutually admissible people only and
\* leaves no blocking pair
IsStable(s, mu) ==
    /\ \A m \in 1..Len(s.men) : mu[m] # 0 => MutuallyAdmissible(s, m, mu[m])
    /\ \A m \in 1..Len(s.men), w \in 1..Len(s.women) :
          ~BlockingPair(WithMatching(s, mu), m, w)

\* nobody ranks two admissible partners equally
StrictPreferences(s) ==
    /\ \A m \in 1..Len(s.men), w1, w2 \in 1..Len(s.women) :
          (/\ w1 # w2
           /\ M_is_admissible(s, "men", s.men[m], s.women[w1])
           /\ M_is_admissible(s, "men", s.men[m], s.women[w2]))
          => M_cmp_3way(s, "men", s.men[m], s.women[w1], s.women[w2]) # "Equal"
    /\ \A w \in 1..Len(s.women), m1, m2 \in 1..Len(s.men) :
          (/\ m1 # m2
           /\ M_is_admissible(s, "women", s.women[w], s.men[m1])
           /\ M_is_admissible(s, "women", s.women[w], s.men[m2]))
          => M_cmp_3way(s, "women", s.women[w], s.men[m1], s.men[m2]) # "Equal"

\* is_perfect_match accepts no pair
NoPerfectMatch(s) ==
    \A m \in 1..Len(s.men), w \in 1..Len(s.women) :
        ~M_is_perfect_match(s, s.men[m], s.women[w])

\* the matching of s as pairs (man, woman) of the items themselves
MatchedPairs(s) ==
    {<<s.men[s.wmatch[w]], s.women[w]>> : w \in {v \in 1..Len(s.women) : s.wmatch[v] # 0}}

\* the men of s in ascending order
RECURSIVE SortedMen(_)
SortedMen(S) ==
    IF S = {} THEN <<>>
    ELSE LET x == CHOOSE x \in S : \A y \in S : x <= y
         IN  <<x>> \o SortedMen(S \ {x})

\* the state stable_marriage returns from when the men of s are listed in
\* ascending order
RunSorted(s) ==
    SMRun(SMStart(s.kind, SortedMen(Range(s.men)), s.women, s.div, s.mlists, s.wlists))

\* C21: stable_marriage favours the proposers: with strict preferences and no
\* perfect match the matching returned is stable, every proposer has in it a
\* target at least as good as the one any stable matching gives him (so he is
\* unmatched only if every stable matching leaves him unmatched), and the
\* pairs are the same in whatever order the proposers are listed
C21_ProposerOptimal ==
    sm.pc = "done" /\ StrictPreferences(sm) /\ NoPerfectMatch(sm) =>
        /\ IsStable(sm, [m \in 1..Len(sm.men) |-> PartnerOf(sm, m)])
        /\ \A mu \in Matchings(sm) :
              IsStable(sm, mu) =>
                  \A m \in 1..Len(sm.men) :
                      mu[m] # 0 =>
                          /\ PartnerOf(sm, m) # 0
                          /\ M_cmp_3way(sm, "men", sm.men[m], sm.women[PartnerOf(sm, m)],
                                        sm.women[mu[m]]) # "Greater"
        /\ MatchedPairs(sm) = MatchedPairs(RunSorted(sm))

\* men 1 and 2 rank the two women in opposite orders and each woman ranks
\* first the man who ranks her last: two stable matchings exist, and the men,
\* listed as 2, 3, 1, have their first choices
C21_Witness ==
    /\ sm.pc = "done"
    /\ sm.kind = "index"
    /\ sm.men = <<2, 3, 1>>
    /\ sm.mlists[1] = <<1, 2>> /\ sm.mlists[2] = <<2, 1>>
    /\ sm.wlists[1] = <<3, 2, 1>> /\ sm.wlists[2] = <<1, 2, 3>>
    /\ Cardinality({mu \in Matchings(sm) : IsStable(sm, mu)}) >= 2
    /\ MatchedPairs(sm) = {<<1, 1>>, <<2, 2>>}

(***************************************************************************)
(* changes_between on pairs of tasks that differ by their recurrence and   *)
(* dates, by their completion and priority, by any of their fields, or by  *)
(* their tags.                                                             *)
(***************************************************************************)
\* a due date with no counterpart in February
DateJan31 == MkDate(2019, 1, 31)

Rec_strict_1m == <<"+", "1", "m">>

\* an open task "aab" with the given dates and tags
DatedTask(create, due, thr, tags) ==
    [MkTask(Str_aab, FALSE) EXCEPT !.create_date = create, !.due_date = due,
                                   !.threshold_date = thr, !.tags = tags]

\* tasks with and without a strict or relative recurrence, their due date a
\* day or two apart, with or without a threshold date
RecurrencePool ==
    {DatedTask(create, due, thr, tags) :
        create \in {None, Some(Date1)},
        due \in {None, Some(Date1), Some(Date2), Some(Date3), Some(DateJan31)},
        thr \in {None, Some(Date1), Some(Date2)},
        tags \in {<<>>, RecTag(Rec_strict_1d), RecTag(Rec_1d), RecTag(Rec_strict_1m)}}

\* an open or completed task "aab" with the given priority and completion
CompletedTask(prio, fin, fdate) ==
    [MkTask(Str_aab, fin) EXCEPT !.priority = prio, !.finish_date = fdate]

\* tasks without priority, with priority A or with priority B, open or
\* completed, with or without a completion date
CompletionPool ==
    {CompletedTask(prio, fin, fdate) :
        prio \in {NoPriority, 0, 1}, fin \in BOOLEAN,
        fdate \in {None, Some(Date1), Some(Date2)}}

Tag_k(v) == << <<"k", v>> >>

Tag_l(v) == << <<"l", v>> >>

\* tasks with two values for each of their fields
FieldPool ==
    {[subject |-> sub, priority |-> prio, create_date |-> create, finished |-> fin,
      finish_date |-> fdate, due_date |-> due, threshold_date |-> thr, tags |-> tags] :
        sub \in {Str_aab, Str_ab}, prio \in {NoPriority, 0}, create \in {None, Some(Date1)},
        fin \in BOOLEAN, fdate \in {None, Some(Date1)}, due \in {None, Some(Date1)},
        thr \in {None, Some(Date1)}, tags \in {<<>>, Tag_k(<<"1">>)}}

\* tasks "aab" whose tags hold the keys k and l, each absent or with one of
\* two values
TagPool ==
    {[MkTask(Str_aab, FALSE) EXCEPT !.tags = k \o l] :
        k \in {<<>>, Tag_k(<<"1">>), Tag_k(<<"2">>)},
        l \in {<<>>, Tag_l(<<"1">>), Tag_l(<<"2">>)}}

CLPairs ==
    (RecurrencePool \X RecurrencePool) \cup (CompletionPool \X CompletionPool)
        \cup (FieldPool \X FieldPool) \cup (TagPool \X TagPool)

CLInit ==
    /\ \E p \in CLPairs, is_first \in BOOLEAN :
          cb = [pc |-> "call", from |-> p[1], to |-> p[2], is_first |-> is_first,
                out |-> OkVal(<<>>)]
    /\ sm = Idle
    /\ cs = Idle
    /\ ad = Idle
    /\ mg = Idle
    /\ rd = Idle

SpecCL == CLInit /\ [][CBNext]_vars

CBDone == cb.pc = "done" /\ ~cb.out.panic

\* the edits that mark a member of a chain
Markers == {"Copied", "RecurredStrict", "RecurredFrom"}

\* both tasks carry the same recurrence, strict ("+" first) or relative
SameRecurrence(from, to, strict) ==
    /\ IsSome(TagGet(from.tags, "rec"))
    /\ TagGet(from.tags, "rec") = TagGet(to.tags, "rec")
    /\ (Unwrap(TagGet(from.tags, "rec"))[1] = "+") = strict

\* date + interval = due, for the interval of the recurrence r
IntervalLeadsTo(date, r, due) ==
    /\ IsSome(date) /\ IsSome(due)
    /\ add_recspec_to_date(Unwrap(date), IF r[1] = "+" THEN Tail(r) ELSE r).val = due

\* the marker of a task that is not the first of its chain; with_thresholds:
\* a recurrence also needs both due dates and threshold dates that are both
\* absent or apart by as much as the due dates
MarkerOf(from, to, with_thresholds) ==
    IF /\ SameRecurrence(from, to, TRUE)
       /\ IntervalLeadsTo(from.due_date, Unwrap(TagGet(from.tags, "rec")), to.due_date)
       /\ with_thresholds => IsSome(postpone_days(from, to))
    THEN <<"RecurredStrict">>
    ELSE IF /\ SameRecurrence(from, to, FALSE)
            /\ IntervalLeadsTo(to.create_date, Unwrap(TagGet(from.tags, "rec")), to.due_date)
            /\ with_thresholds => IsSome(postpone_days(from, to))
         THEN <<"RecurredFrom", Unwrap(to.create_date)>>
         ELSE <<"Copied">>

\* the list res has no marker when is_first, and otherwise begins with the
\* marker `marker` and has no other
OneMarker(res, is_first, marker) ==
    IF is_first THEN \A i \in 1..Len(res) : res[i][1] \notin Markers
    ELSE /\ Len(res) >= 1
         /\ res[1] = marker
         /\ \A i \in 2..Len(res) : res[i][1] \notin Markers

\* C22 as stated: with is_first = true the result of changes_between has none
\* of Copied, RecurredStrict, RecurredFrom; with is_first = false it begins
\* with exactly one of them: RecurredStrict when both tasks carry the same
\* strict recurrence and from.due_date + interval = to.due_date,
\* RecurredFrom(to.create_date) when both carry the same relative recurrence
\* and to.create_date + interval = to.due_date, Copied otherwise
C22_ChainMarker ==
    CBDone => OneMarker(cb.out.val, cb.is_first, MarkerOf(cb.from, cb.to, FALSE))

\* C22: with is_first = true the list returned by changes_between has none of
\* Copied, RecurredStrict, RecurredFrom; with is_first = false it begins with
\* exactly one of them: RecurredStrict (or RecurredFrom(to.create_date)) when
\* both tasks carry the same strict (relative) recurrence, from.due_date
\* (to.create_date) + interval = to.due_date, both have a due date and their
\* threshold dates are both absent or apart by as much as the due dates;
\* Copied otherwise
C22_ChainMarkerThresholds ==
    CBDone => OneMarker(cb.out.val, cb.is_first, MarkerOf(cb.from, cb.to, TRUE))

\* a strict recurrence a day later whose threshold date did not follow: the
\* list begins with Copied
C22_Witness ==
    /\ CBDone /\ ~cb.is_first
    /\ cb.from = DatedTask(None, Some(Date1), Some(Date1), RecTag(Rec_strict_1d))
    /\ cb.to = DatedTask(None, Some(Date2), Some(Date1), RecTag(Rec_strict_1d))
    /\ cb.out.val = << <<"Copied">>, <<"DueDate", Some(Date1), Some(Date2)>> >>

\* the edits of kind `kind` in the list res, in order
EditsOfKind(res, kind) == SelectSeq(res, LAMBDA c : c[1] = kind)

\* C23: completion shortcut: changes_between emits FinishedAt(to.finish_date)
\* exactly when the task goes from not finished with no completion date to
\* finished with a completion date; then neither Finished nor FinishDate is
\* emitted, and a change of priority is reported unless the after-task has no
\* priority
C23_CompletionShortcut ==
    CBDone =>
        LET res == cb.out.val
            shortcut == /\ ~cb.from.finished /\ cb.to.finished
                        /\ cb.from.finish_date = None /\ cb.to.finish_date # None
        IN  /\ EditsOfKind(res, "FinishedAt")
                  = (IF shortcut THEN << <<"FinishedAt", Unwrap(cb.to.finish_date)>> >>
                     ELSE <<>>)
            /\ shortcut =>
                  /\ EditsOfKind(res, "Finished") = <<>>
                  /\ EditsOfKind(res, "FinishDate") = <<>>
                  /\ EditsOfKind(res, "Priority")
                        = (IF cb.from.priority # cb.to.priority /\ cb.to.priority # NoPriority
                           THEN << <<"Priority", PrioLetter(cb.from.priority),
                                     PrioLetter(cb.to.priority)>> >>
                           ELSE <<>>)

\* "(A) aab" completed on 2018-04-08 and its priority changed to B
C23_Witness ==
    /\ CBDone /\ cb.is_first
    /\ cb.from = CompletedTask(0, FALSE, None)
    /\ cb.to = CompletedTask(1, TRUE, Some(Date1))
    /\ cb.out.val = << <<"FinishedAt", Date1>>, <<"Priority", Some(65), Some(66)>> >>

\* the number of days between two dates that are both present
DaysApart(from_date, to_date) == DayNumber(Unwrap(to_date)) - DayNumber(Unwrap(from_date))

\* the threshold dates are both absent, or both present and apart by as much
\* as the due dates
ThresholdsFollow(from, to) ==
    \/ from.threshold_date = None /\ to.threshold_date = None
    \/ /\ IsSome(from.threshold_date) /\ IsSome(to.threshold_date)
       /\ IsSome(from.due_date) /\ IsSome(to.due_date)
       /\ DaysApart(from.threshold_date, to.threshold_date)
             = DaysApart(from.due_date, to.due_date)

\* the list res reports the change of due date as a postponement (folded) or
\* as raw edits
DueReported(res, from, to, folded) ==
    IF folded
    THEN /\ IsSome(from.due_date) /\ IsSome(to.due_date)
         /\ EditsOfKind(res, "PostponedStrictBy")
               = << <<"PostponedStrictBy", DaysApart(from.due_date, to.due_date)>> >>
         /\ EditsOfKind(res, "DueDate") = <<>>
         /\ EditsOfKind(res, "ThresholdDate") = <<>>
    ELSE /\ EditsOfKind(res, "PostponedStrictBy") = <<>>
         /\ EditsOfKind(res, "DueDate") = << <<"DueDate", from.due_date, to.due_date>> >>
         /\ EditsOfKind(res, "ThresholdDate")
               = (IF from.threshold_date # to.threshold_date
                  THEN << <<"ThresholdDate", from.threshold_date, to.threshold_date>> >>
                  ELSE <<>>)

\* no recurrence was detected and the due date changed
DueChanged ==
    /\ CBDone
    /\ Kinds(cb.out.val) \cap {"RecurredStrict", "RecurredFrom"} = {}
    /\ cb.from.due_date # cb.to.due_date

\* C24 as stated: when no recurrence was detected and the due date changed,
\* changes_between emits PostponedStrictBy(to.due - from.due) if both threshold
\* dates are absent or the threshold date shifted by the same amount, and then
\* neither DueDate nor ThresholdDate; in every other case it emits the raw
\* DueDate (and ThresholdDate if the threshold changed) and no PostponedStrictBy
C24_Postponed ==
    DueChanged => DueReported(cb.out.val, cb.from, cb.to, ThresholdsFollow(cb.from, cb.to))

\* C24: when no recurrence was detected and the due date changed,
\* changes_between emits PostponedStrictBy(to.due - from.due) if the task had
\* a due date and still has one, and both threshold dates are absent or the
\* threshold date shifted by the same amount, and then neither DueDate nor
\* ThresholdDate; in every other case (a due date added or removed among them)
\* it emits the raw DueDate (and ThresholdDate if the threshold changed) and
\* no PostponedStrictBy
C24_PostponedBothDue ==
    DueChanged =>
        DueReported(cb.out.val, cb.from, cb.to,
                    /\ IsSome(cb.from.due_date) /\ IsSome(cb.to.due_date)
                    /\ ThresholdsFollow(cb.from, cb.to))

\* due date and threshold date both a day later: one PostponedStrictBy
C24_Witness ==
    /\ CBDone /\ cb.is_first
    /\ cb.from = DatedTask(None, Some(Date2), Some(Date1), <<>>)
    /\ cb.to = DatedTask(None, Some(Date3), Some(Date2), <<>>)
    /\ cb.out.val = << <<"PostponedStrictBy", 1>> >>

\* the place of an edit in the order of the pushes of changes_between
EditRank(c) ==
    CASE c[1] \in Markers -> 1
      [] c[1] = "FinishedAt" -> 2
      [] c[1] = "PostponedStrictBy" -> 3
      [] c[1] = "ThresholdDate" -> 4
      [] c[1] = "DueDate" -> 5
      [] c[1] = "Finished" -> 6
      [] c[1] = "FinishDate" -> 7
      [] c[1] = "Priority" -> 8
      [] c[1] = "CreateDate" -> 9
      [] c[1] = "Tags" -> 10
      [] c[1] = "Subject" -> 11

\* the edit c, when a raw edit, tells a difference of its field between the
\* two tasks
RawEditDiffers(c, from, to) ==
    CASE c[1] = "ThresholdDate" ->
            c[2] = from.threshold_date /\ c[3] = to.threshold_date /\ c[2] # c[3]
      [] c[1] = "DueDate" -> c[2] = from.due_date /\ c[3] = to.due_date /\ c[2] # c[3]
      [] c[1] = "Finished" -> c[2] = to.finished /\ from.finished # to.finished
      [] c[1] = "FinishDate" ->
            c[2] = from.finish_date /\ c[3] = to.finish_date /\ c[2] # c[3]
      [] c[1] = "Priority" ->
            /\ c[2] = PrioLetter(from.priority) /\ c[3] = PrioLetter(to.priority)
            /\ c[2] # c[3]
      [] c[1] = "CreateDate" ->
            c[2] = from.create_date /\ c[3] = to.create_date /\ c[2] # c[3]
      [] c[1] = "Tags" -> from.tags # to.tags /\ c[2] # c[3]
      [] c[1] = "Subject" -> c[2] = from.subject /\ c[3] = to.subject /\ c[2] # c[3]
      [] OTHER -> TRUE

\* C25: in every list returned by changes_between the edits come in the order
\* marker (Recurred*/Copied), FinishedAt, PostponedStrictBy, ThresholdDate,
\* DueDate, Finished, FinishDate, Priority, CreateDate, Tags, Subject, each
\* kind at most once, and a raw edit X(before, after) is in the list only if
\* that field differs between the two tasks (before /= after)
C25_OrderedRawEdits ==
    CBDone =>
        LET res == cb.out.val
        IN  /\ \A i, j \in 1..Len(res) : i < j => EditRank(res[i]) < EditRank(res[j])
            /\ \A i \in 1..Len(res) : RawEditDiffers(res[i], cb.from, cb.to)

\* every field differs and no shortcut applies: nine edits, from Copied to
\* Subject
C25_Witness ==
    /\ CBDone /\ ~cb.is_first
    /\ cb.from = [MkTask(Str_aab, TRUE) EXCEPT !.priority = 0, !.finish_date = Some(Date1)]
    /\ cb.to = [MkTask(Str_ab, FALSE) EXCEPT !.create_date = Some(Date1),
                                             !.due_date = Some(Date1),
                                             !.threshold_date = Some(Date1),
                                             !.tags = Tag_k(<<"1">>)]
    /\ cb.out.val = << <<"Copied">>,
                       <<"ThresholdDate", None, Some(Date1)>>,
                       <<"DueDate", None, Some(Date1)>>,
                       <<"Finished", FALSE>>,
                       <<"FinishDate", Some(Date1), None>>,
                       <<"Priority", Some(65), None>>,
                       <<"CreateDate", None, Some(Date1)>>,
                       <<"Tags", <<>>, Tag_k(<<"1">>)>>,
                       <<"Subject", Str_aab, Str_ab>> >>

\* the pairs of q that are not in r, in the order of q
PairsMinus(q, r) == SelectSeq(q, LAMBDA x : x \notin Range(r))

\* C26: the Tags(removed, added) edit is the symmetric difference of the two
\* tasks' tag pairs: no (key, value) pair is in both removed and added,
\* removed is the before-pairs minus the after-pairs and added the
\* after-pairs minus the before-pairs, each pair as many times as it is left
\* and in the order it had, and the edit never has both lists empty
C26_TagsSymmetricDifference ==
    CBDone =>
        \A i \in 1..Len(cb.out.val) :
            cb.out.val[i][1] = "Tags" =>
                LET removed == cb.out.val[i][2]
                    added == cb.out.val[i][3]
                    before == cb.from.tags
                    after == cb.to.tags
                    pairs == Range(before) \cup Range(after)
                IN  /\ Range(removed) \cap Range(added) = {}
                    /\ \A x \in pairs :
                          /\ Count(removed, x) = Count(before, x) - Min2(Count(before, x), Count(after, x))
                          /\ Count(added, x) = Count(after, x) - Min2(Count(before, x), Count(after, x))
                    /\ removed = PairsMinus(before, after)
                    /\ added = PairsMinus(after, before)
                    /\ ~(removed = <<>> /\ added = <<>>)

\* k:1 l:1 becomes k:2 l:1: the pair l:1 is on neither side of the edit
C26_Witness ==
    /\ CBDone /\ cb.is_first
    /\ cb.from.tags = Tag_k(<<"1">>) \o Tag_l(<<"1">>)
    /\ cb.to.tags = Tag_k(<<"2">>) \o Tag_l(<<"1">>)
    /\ cb.out.val = << <<"Tags", Tag_k(<<"1">>), Tag_k(<<"2">>)>> >>

\* C29: no silent change: if changes_between(a, b, true) returns the empty
\* list then a and b agree on every compared field (subject, priority,
\* creation date, finished flag, completion date, due date, threshold date,
\* tags)
C29_NoSilentChange ==
    CBDone /\ cb.is_first /\ cb.out.val = <<>> =>
        /\ cb.from.subject = cb.to.subject
        /\ cb.from.priority = cb.to.priority
        /\ cb.from.create_date = cb.to.create_date
        /\ cb.from.finished = cb.to.finished
        /\ cb.from.finish_date = cb.to.finish_date
        /\ cb.from.due_date = cb.to.due_date
        /\ cb.from.threshold_date = cb.to.threshold_date
        /\ cb.from.tags = cb.to.tags

\* a task compared with itself as the first of its chain: the empty list
C29_Witness ==
    /\ CBDone /\ cb.is_first
    /\ cb.from = [MkTask(Str_ab, TRUE) EXCEPT !.priority = 0, !.finish_date = Some(Date1),
                                              !.tags = Tag_k(<<"1">>)]
    /\ cb.to = cb.from
    /\ cb.out.val = <<>>

(***************************************************************************)
(* compute_changeset on recurring tasks with more successors than          *)
(* originals.                                                              *)
(***************************************************************************)
\* "aaa due:2018-04-08 rec:1d"
RecTaskB == [RecTask EXCEPT !.subject = Str_aaa]

\* "aaa due:2018-04-09 rec:1d"
RecTaskB2 == [RecTask2 EXCEPT !.subject = Str_aaa]

\* two recurring tasks one letter apart and a task that does not recur
RFFromPool == {RecTask, RecTaskB, MkTask(Str_aab, FALSE)}

\* successors of the two recurring tasks and a task far from both
RFToPool == {RecTask2, RecTask3, RecTaskB2, MkTask(Str_ab, FALSE)}

\* at 34 two subjects of three letters one letter apart are admissible, at 67
\* "ab" is admissible for "aab" as well
RFDivs == {34, 67}

RFInit ==
    /\ \E from \in SeqsUpTo(RFFromPool, MaxTasks), to \in SeqsUpTo(RFToPool, MaxTasks + 1),
          div \in RFDivs :
          cs = [pc |-> "call", from |-> from, to |-> to, div |-> div,
                out |-> [panic |-> FALSE, new_tasks |-> <<>>, changes |-> <<>>,
                         matches |-> <<>>]]
    /\ sm = Idle
    /\ cb = Idle
    /\ ad = Idle
    /\ mg = Idle
    /\ rd = Idle

SpecRF == RFInit /\ [][CSNext]_vars

CSReturned == CSDone /\ ~cs.out.panic

\* entry k of matches has a from-task that carries a recurrence tag
Recurring(k) == IsSome(TagGet(cs.out.matches[k].orig.tags, "rec"))

\* the recurring entries of matches whose from-task is admissible for x
FoldCandidates(x) ==
    {k \in 1..Len(cs.out.matches) :
        Recurring(k) /\ is_task_admissible(cs.out.matches[k].orig, x, cs.div)}

\* the number of to-tasks in the chains of matches
RECURSIVE ChainTotal(_, _)
ChainTotal(matches, n) ==
    IF n = 0 THEN 0 ELSE ChainTotal(matches, n - 1) + Len(matches[n].tasks)

\* C27: recurrence folding: a to-task the matching leaves unmatched is taken
\* out of new_tasks and appended to the chain of a matched from-task carrying
\* a recurrence tag exactly when it is admissible against at least one such
\* task, and it goes to one closest to it by cmp_tasks_3way; it stays in
\* new_tasks otherwise.  A recurring task whose chain ends with a single
\* member is reported as Changed, with two or more as Recurred
C27_RecurrenceFolding ==
    CSReturned =>
        LET matches == cs.out.matches
        IN  /\ \A n \in 1..Len(cs.out.new_tasks) : FoldCandidates(cs.out.new_tasks[n]) = {}
            /\ \A k \in 1..Len(matches) :
                  \A i \in 2..Len(matches[k].tasks) :
                      /\ k \in FoldCandidates(matches[k].tasks[i])
                      /\ \A l \in FoldCandidates(matches[k].tasks[i]) :
                            cmp_tasks_3way(matches[k].tasks[i], matches[k].orig,
                                           matches[l].orig) # "Greater"
            /\ Len(cs.out.new_tasks) + ChainTotal(matches, Len(matches))
                  = Len(remove_common(cs.from, cs.to)[2])
            /\ \A k \in 1..Len(matches) :
                  /\ Len(matches[k].tasks) >= 1
                  /\ cs.out.changes[k].orig = matches[k].orig
                  /\ cs.out.changes[k].kind
                        = (IF Recurring(k) /\ Len(matches[k].tasks) >= 2
                           THEN "Recurred" ELSE "Changed")
                  /\ Len(cs.out.changes[k].edits) = Len(matches[k].tasks)

\* "aaa" and "aab" recur, "aab" twice: the second successor of "aab" is
\* admissible for both and goes to "aab", listed last; "aaa", with one
\* successor, is Changed
C27_Witness ==
    /\ CSReturned
    /\ cs.div = 34
    /\ cs.from = <<RecTaskB, RecTask>>
    /\ cs.to = <<RecTaskB2, RecTask2, RecTask3>>
    /\ cs.out.new_tasks = <<>>
    /\ cs.out.matches[1].tasks = <<RecTaskB2>>
    /\ cs.out.matches[2].tasks = <<RecTask2, RecTask3>>
    /\ cs.out.changes[1].kind = "Changed"
    /\ cs.out.changes[2].kind = "Recurred"

\* the number of pairings of identical tasks of from and to
IdenticalPairs ==
    Cardinality({p \in (Range(cs.from) \cap Range(cs.to)) \X (1..Len(cs.from)) :
                    p[2] <= Min2(Count(cs.from, p[1]), Count(cs.to, p[1]))})

\* the number of edit lists of the deltas changes[1..n], one per target
RECURSIVE TargetTotal(_, _)
TargetTotal(changes, n) ==
    IF n = 0 THEN 0 ELSE TargetTotal(changes, n - 1) + Len(changes[n].edits)

\* C28: conservation of tasks in compute_changeset(from, to, d): every
\* occurrence of a task in from is an identical pairing or the original of
\* exactly one delta, every occurrence in to is an identical pairing, the
\* target of one Changed delta, one member of one Recurred chain or one entry
\* of new_tasks; no task is lost or reported twice
C28_Conservation ==
    CSReturned =>
        LET changes == cs.out.changes
        IN  /\ Len(cs.from) = IdenticalPairs + Len(changes)
            /\ Len(cs.to) = IdenticalPairs + TargetTotal(changes, Len(changes))
                               + Len(cs.out.new_tasks)
            /\ \A k \in 1..Len(changes) :
                  /\ changes[k].kind = "Deleted" => Len(changes[k].edits) = 0
                  /\ changes[k].kind = "Changed" => Len(changes[k].edits) = 1
                  /\ changes[k].kind = "Recurred" => Len(changes[k].edits) >= 2
                  /\ k <= Len(cs.out.matches) =>
                        Len(changes[k].edits) = Len(cs.out.matches[k].tasks)
            /\ \A v \in Range(cs.from) \cup Range(cs.to) :
                  /\ Count(cs.from, v)
                        = Min2(Count(cs.from, v), Count(cs.to, v)) + CountOrig(changes, v)
                  /\ Count(cs.to, v)
                        = Min2(Count(cs.from, v), Count(cs.to, v))
                            + CountTargets(cs.out.matches, v)
                            + Count(cs.out.new_tasks, v)

\* the recurring task takes both copies of "aab" into its chain and "aaa",
\* too far from "aab" at 25, is deleted
C28_Witness ==
    /\ CSReturned
    /\ cs.div = 25
    /\ cs.from = <<RecTask, MkTask(Str_aaa, FALSE)>>
    /\ cs.to = <<MkTask(Str_aab, FALSE), MkTask(Str_aab, FALSE)>>
    /\ cs.out.new_tasks = <<>>
    /\ Len(cs.out.changes) = 2
    /\ cs.out.changes[1].kind = "Recurred"
    /\ Len(cs.out.changes[1].edits) = 2
    /\ cs.out.changes[2].kind = "Deleted"

(***************************************************************************)
(* The similarity oracle and compute_changeset on tasks with an empty      *)
(* subject.                                                                *)
(***************************************************************************)
\* is_task_admissible as a result: `distance * 100 / other.subject.len()`
\* aborts ("attempt to divide by zero") when other.subject is empty
try_is_task_admissible(from, other, allowed_divergence) ==
    IF Len(other.subject) = 0 THEN Panic
    ELSE OkVal(is_task_admissible(from, other, allowed_divergence))

\* the preference matrix of the tasks of a over the tasks of b aborts:
\* preferred_task_ids(t, b, ..) calls is_task_admissible(t, x, ..) on every
\* x of b, for every t of a
PreferencesAbort(a, b) ==
    \E i \in 1..Len(a), j \in 1..Len(b) :
        try_is_task_admissible(a[i], b[j], 0).panic

\* compute_changeset as a result: the two preference matrices are computed
\* on the lists remove_common leaves, from first
try_compute_changeset(from0, to0, allowed_divergence) ==
    IF \/ PreferencesAbort(remove_common(from0, to0)[1], remove_common(from0, to0)[2])
       \/ PreferencesAbort(remove_common(from0, to0)[2], remove_common(from0, to0)[1])
    THEN [panic |-> TRUE, new_tasks |-> <<>>, changes |-> <<>>, matches |-> <<>>]
    ELSE compute_changeset(from0, to0, allowed_divergence)

Str_empty == <<>>

ESSubjects == {Str_empty, Str_a, Str_aab}

ESPool == {MkTask(Str_empty, FALSE), MkTask(Str_aab, FALSE), MkTask(Str_ab, FALSE)}

ESInit ==
    /\ \/ /\ \E c \in ESSubjects, r \in ESSubjects, d \in 0..MaxDivergence :
                ad = [pc |-> "call", from |-> MkTask(c, FALSE), other |-> MkTask(r, FALSE),
                      div |-> d, out |-> OkVal(FALSE)]
          /\ cs = Idle
       \/ /\ \E from \in SeqsUpTo(ESPool, MaxTasks), to \in SeqsUpTo(ESPool, MaxTasks),
                div \in Divs :
                cs = [pc |-> "call", from |-> from, to |-> to, div |-> div,
                      out |-> [panic |-> FALSE, new_tasks |-> <<>>, changes |-> <<>>,
                               matches |-> <<>>]]
          /\ ad = Idle
    /\ sm = Idle
    /\ cb = Idle
    /\ mg = Idle
    /\ rd = Idle

\* is_task_admissible(from, other, allowed_divergence) is called and returns
\* or aborts
ES_Admissible ==
    /\ ad.pc = "call"
    /\ ad' = [ad EXCEPT !.pc = "done",
                        !.out = try_is_task_admissible(ad.from, ad.other, ad.div)]
    /\ UNCHANGED <<sm, cs, cb, mg, rd>>

\* compute_changeset(from, to, allowed_divergence) is called and returns or
\* aborts
ES_Changeset ==
    /\ cs.pc = "call"
    /\ cs' = [cs EXCEPT !.pc = "done",
                        !.out = try_compute_changeset(cs.from, cs.to, cs.div)]
    /\ UNCHANGED <<sm, cb, ad, mg, rd>>

ESNext == ES_Admissible \/ ES_Changeset

SpecES == ESInit /\ [][ESNext]_vars

\* C30: is_task_admissible and compute_changeset return a result, without
\* aborting, when a task's subject is empty, for every allowed_divergence in
\* 0..100
C30_TotalOnEmptySubjects ==
    /\ ad.pc = "done" => ~ad.out.panic
    /\ cs.pc = "done" => ~cs.out.panic
====
